---- MODULE Spec2Model ----
(***************************************************************************)
(* The transaction / PSBT codec of tests/test_framework/serializations.py  *)
(* and its callers, as a state machine.                                    *)
(*                                                                         *)
(* Representation.  A byte string is a sequence of integers 0..255.  A     *)
(* Python integer n >= 0 is held as its minimal little-endian base-256     *)
(* digit string (0 is <<>>, 258 is <<2, 1>>), so that 32-, 64- and 256-bit *)
(* fields keep their full width; a signed field ("<i", "<q") is held as    *)
(* its two's-complement residue.  None is the value <<-1>>.                *)
(***************************************************************************)
EXTENDS Integers, Sequences, FiniteSets, TLC

VARIABLES
  pc,      \* position of the caller (the test) between calls
  tx,      \* a CTransaction object: the one built by the caller
  tx2,     \* a second CTransaction object: the target of a decode
  shared,  \* the stack of the CScriptWitness instance that is the default
           \* argument of CTxInWitness.__init__ (one object per process)
  buf,     \* the caller's byte buffer (a serialization, or bytes to decode)
  out,     \* bytes returned by a serializer call
  ret,     \* value returned by a call (a txid, a digest, a decoded value)
  err,     \* TRUE when the latest call raised
  psbt,    \* a PSBT object
  psbt2,   \* a second PSBT object: the result of PSBT.from_base64
  frame,   \* the locals of each running call (for CTransaction.deserialize
           \* its stream f, flags, loop index i; for wait_for_logs its exs
           \* and pos), one per thread; <<>> when the caller makes one call
           \* at a time
  tailable \* a TailableProc object with the process it started

vars == <<pc, tx, tx2, shared, buf, out, ret, err, psbt, psbt2, frame, tailable>>

\* None where an integer or bytes are expected
None == <<-1>>
\* None where an object is expected
NoneObject == [none |-> TRUE]

\* what `ret` holds: the call, its arguments, the value returned
Ret(op, arg, v) == [op |-> op, arg |-> arg, v |-> v]
NoRet == Ret("none", <<>>, <<>>)

Min(a, b) == IF a < b THEN a ELSE b

\* ---------------------------------------------------------------- integers

\* n zero bytes
Zeros(n) == [i \in 1..n |-> 0]

RECURSIVE Strip(_)
\* struct.unpack("<B/H/I/Q", s)[0]: the value of the little-endian bytes s
Strip(s) ==
  IF Len(s) = 0 THEN s
  ELSE IF s[Len(s)] = 0 THEN Strip(SubSeq(s, 1, Len(s) - 1)) ELSE s

\* struct.pack("<B/H/I/Q", n): n on w little-endian bytes (n fits in w bytes)
pack(n, w) == n \o Zeros(w - Len(n))

RECURSIVE NumOf(_)
\* the Python integer k (a length, a count, a byte) in digit form
NumOf(k) == IF k = 0 THEN <<>> ELSE <<k % 256>> \o NumOf(k \div 256)

\* the integer of a digit string, as range() and read() use it; a count above
\* 2^24 exceeds every buffer of the model and is held as 2^24
IntOf(n) ==
  IF Len(n) > 3 THEN 256 * 256 * 256
  ELSE (IF Len(n) >= 1 THEN n[1] ELSE 0)
     + (IF Len(n) >= 2 THEN n[2] * 256 ELSE 0)
     + (IF Len(n) >= 3 THEN n[3] * 256 * 256 ELSE 0)

\* ----------------------------------------------------------------- streams

\* io.BytesIO(b)
BytesIO(b) == [b |-> b, pos |-> 0]

\* result of a call on a stream: returned value v and the stream after it,
\* or ok = FALSE when the call raised
Ok(v, f) == [ok |-> TRUE, v |-> v, f |-> f]
Raise(f) == [ok |-> FALSE, v |-> <<>>, f |-> f]

\* K applied to the value e: e is evaluated once and named by K's parameter
With(e, K(_)) == K(e)

\* statement sequencing: K continues from the result r of a call on a stream,
\* unless that call raised
Then(r, K(_)) == IF r.ok THEN K(r) ELSE Raise(r.f)

\* f.read(n): up to n bytes, fewer at the end of the buffer
read(f, n) ==
  LET e == Min(f.pos + n, Len(f.b))
  IN  Ok(SubSeq(f.b, f.pos + 1, e), [f EXCEPT !.pos = e])

\* struct.unpack(fmt, f.read(w))[0]: raises struct.error on a short read
unpack_from(f, w) ==
  With(read(f, w), LAMBDA r :
    IF Len(r.v) < w THEN Raise(r.f) ELSE Ok(Strip(r.v), r.f))

\* ser_compact_size taking the one-byte form up to and including 253
ser_compact_size_253(l) ==
  IF Len(l) = 0 \/ (Len(l) = 1 /\ l[1] <= 253) THEN pack(l, 1)
  ELSE IF Len(l) <= 2 THEN <<253>> \o pack(l, 2)
  ELSE IF Len(l) <= 4 THEN <<254>> \o pack(l, 4)
  ELSE <<255>> \o pack(l, 8)

ser_compact_size(l) ==
  IF Len(l) = 0 \/ (Len(l) = 1 /\ l[1] < 253) THEN pack(l, 1)
  ELSE IF Len(l) <= 2 THEN <<253>> \o pack(l, 2)
  ELSE IF Len(l) <= 4 THEN <<254>> \o pack(l, 4)
  ELSE <<255>> \o pack(l, 8)

deser_compact_size(f) ==
  Then(unpack_from(f, 1), LAMBDA r1 :
    IF r1.v \in {<<253>>, <<254>>, <<255>>}
    THEN unpack_from(r1.f, CASE r1.v = <<253>> -> 2
                             [] r1.v = <<254>> -> 4
                             [] r1.v = <<255>> -> 8)
    ELSE r1)

deser_string(f) ==
  Then(deser_compact_size(f), LAMBDA r : read(r.f, IntOf(r.v)))

ser_string(s) == ser_compact_size(NumOf(Len(s))) \o s

\* eight 32-bit little-endian limbs, least significant first
deser_uint256(f) ==
  With(read(f, 32), LAMBDA r :
    IF Len(r.v) < 32 THEN Raise(r.f) ELSE Ok(Strip(r.v), r.f))

\* the low 256 bits of u, limb by limb
ser_uint256(u) == pack(SubSeq(u, 1, Min(Len(u), 32)), 32)

uint256_from_str(s) == Strip(SubSeq(s, 1, 32))

RECURSIVE deser_string_items(_, _, _)
deser_string_items(f, n, acc) ==
  IF n = 0 THEN Ok(acc, f)
  ELSE Then(deser_string(f), LAMBDA r :
         deser_string_items(r.f, n - 1, Append(acc, r.v)))

deser_string_vector(f) ==
  Then(deser_compact_size(f), LAMBDA r :
    deser_string_items(r.f, IntOf(r.v), <<>>))

RECURSIVE Concat(_)
\* b"".join(ss)
Concat(ss) == IF Len(ss) = 0 THEN <<>> ELSE Head(ss) \o Concat(Tail(ss))

ser_string_vector(l) ==
  ser_compact_size(NumOf(Len(l))) \o Concat([i \in 1..Len(l) |-> ser_string(l[i])])

\* s[::-1]
Reverse(s) == [i \in 1..Len(s) |-> s[Len(s) + 1 - i]]

\* ------------------------------------------------------------------ hashes

RECURSIVE Absorb(_, _, _)
\* a position-weighted checksum of s[lo..hi], by halves
Absorb(s, lo, hi) ==
  IF lo > hi THEN 0
  ELSE IF lo = hi THEN (((lo % 251) + 1) * (s[lo] + 1)) % 65521
  ELSE LET mid == (lo + hi) \div 2
       IN  (Absorb(s, lo, mid) + Absorb(s, mid + 1, hi)) % 65521

\* hashlib's SHA-256, abstracted: a 32-byte digest that is a fixed function of
\* the whole input (a 16-bit checksum of it and of its length, spread over
\* the 32 bytes)
sha256(s) ==
  With((Absorb(s, 1, Len(s)) + 7 * Len(s) + 1) % 65521, LAMBDA h :
    [j \in 1..32 |-> ((h % 256) * j + (h \div 256) + j) % 256])

hash256(s) == sha256(sha256(s))

\* encode(b, "hex_codec").decode("ascii"): two hex digits (0..15) per byte
HexOf(b) == Concat([i \in 1..Len(b) |-> <<b[i] \div 16, b[i] % 16>>])

\* ------------------------------------------------- transaction structures

COutPoint_serialize(o) == ser_uint256(o.hash) \o pack(o.n, 4)

COutPoint_deserialize(f) ==
  Then(deser_uint256(f), LAMBDA r1 :
  Then(unpack_from(r1.f, 4), LAMBDA r2 :
    Ok([hash |-> r1.v, n |-> r2.v], r2.f)))

CTxIn_serialize(i) ==
  COutPoint_serialize(i.prevout) \o ser_string(i.scriptSig) \o pack(i.nSequence, 4)

CTxIn_deserialize(f) ==
  Then(COutPoint_deserialize(f), LAMBDA r1 :
  Then(deser_string(r1.f), LAMBDA r2 :
  Then(unpack_from(r2.f, 4), LAMBDA r3 :
    Ok([prevout |-> r1.v, scriptSig |-> r2.v, nSequence |-> r3.v], r3.f))))

\* CTxOut.serialize packing nValue with "<i" instead of "<q"
CTxOut_serialize_int32(o) ==
  pack(SubSeq(o.nValue, 1, Min(Len(o.nValue), 4)), 4) \o ser_string(o.scriptPubKey)

CTxOut_serialize(o) == pack(o.nValue, 8) \o ser_string(o.scriptPubKey)

CTxOut_deserialize(f) ==
  Then(unpack_from(f, 8), LAMBDA r1 :
  Then(deser_string(r1.f), LAMBDA r2 :
    Ok([nValue |-> r1.v, scriptPubKey |-> r2.v], r2.f)))

RECURSIVE deser_items(_, _, _, _)
\* the loop of deser_vector: c() then t.deserialize(f), n times
deser_items(f, c, n, acc) ==
  IF n = 0 THEN Ok(acc, f)
  ELSE Then(IF c = "CTxIn" THEN CTxIn_deserialize(f) ELSE CTxOut_deserialize(f),
            LAMBDA r : deser_items(r.f, c, n - 1, Append(acc, r.v)))

deser_vector(f, c) ==
  Then(deser_compact_size(f), LAMBDA r : deser_items(r.f, c, IntOf(r.v), <<>>))

\* i.serialize() on an element of vin or of vout
Serialize(x) ==
  IF "prevout" \in DOMAIN x THEN CTxIn_serialize(x) ELSE CTxOut_serialize(x)

ser_vector(l) ==
  ser_compact_size(NumOf(Len(l))) \o Concat([i \in 1..Len(l) |-> Serialize(l[i])])

\* A CTxInWitness holds a reference to a CScriptWitness.  own = TRUE: the
\* caller passed its own CScriptWitness(stack).  own = FALSE: CTxInWitness()
\* was built with the default argument, the one CScriptWitness instance
\* created when the class was defined, whose stack is the variable `shared`.
CTxInWitness(stack) == [own |-> TRUE, stack |-> stack]
CTxInWitnessDefault == [own |-> FALSE, stack |-> <<>>]

\* w.scriptWitness.stack, D being the stack of the default instance
StackOf(w, D) == IF w.own THEN w.stack ELSE D

CTxInWitness_serialize(w, D) == ser_string_vector(StackOf(w, D))

CTxInWitness_is_null(w, D) == StackOf(w, D) = <<>>

CTxWitness_serialize(vtxinwit, D) ==
  Concat([i \in 1..Len(vtxinwit) |-> CTxInWitness_serialize(vtxinwit[i], D)])

CTxWitness_is_null(vtxinwit, D) ==
  \A i \in 1..Len(vtxinwit) : CTxInWitness_is_null(vtxinwit[i], D)

RECURSIVE CTxWitness_deserialize(_, _, _, _)
\* for i in range(len(vtxinwit)): vtxinwit[i].scriptWitness.stack = deser_string_vector(f)
CTxWitness_deserialize(vtxinwit, f, D, i) ==
  IF i > Len(vtxinwit) THEN [ok |-> TRUE, wit |-> vtxinwit, D |-> D, f |-> f]
  ELSE With(deser_string_vector(f), LAMBDA r :
         IF ~r.ok THEN [ok |-> FALSE, wit |-> vtxinwit, D |-> D, f |-> r.f]
         ELSE IF vtxinwit[i].own
         THEN CTxWitness_deserialize(
                [vtxinwit EXCEPT ![i].stack = r.v], r.f, D, i + 1)
         ELSE CTxWitness_deserialize(vtxinwit, r.f, r.v, i + 1))

\* CTransaction()
CTransaction ==
  [nVersion |-> <<1>>, vin |-> <<>>, vout |-> <<>>, wit |-> <<>>,
   nLockTime |-> <<>>, sha256 |-> None, hash |-> None]

\* A method running on an object is a frame st: the object so far (tx), the
\* stack D of the default CScriptWitness, the stream f, the local `flags`
\* (as flags != 0), and ok = FALSE once a statement has raised.

\* a statement fed by the stream call r: K gives the frame after it; a raise
\* leaves the object as the earlier statements made it
Stmt(st, r, K(_)) == IF r.ok THEN K(r) ELSE [st EXCEPT !.ok = FALSE, !.f = r.f]

\* the statements K after the frame st, skipped when st has raised
AndThen(st, K(_)) == IF st.ok THEN K(st) ELSE st

\* self.nVersion = struct.unpack("<i", f.read(4))[0]
deserialize_nVersion(st) ==
  Stmt(st, unpack_from(st.f, 4), LAMBDA r :
    [st EXCEPT !.tx.nVersion = r.v, !.f = r.f])

\* self.vin = deser_vector(f, CTxIn)
deserialize_vin(st) ==
  Stmt(st, deser_vector(st.f, "CTxIn"), LAMBDA r :
    [st EXCEPT !.tx.vin = r.v, !.f = r.f])

\* flags = struct.unpack("<B", f.read(1))[0]
deserialize_flags(st) ==
  Stmt(st, unpack_from(st.f, 1), LAMBDA r :
    [st EXCEPT !.flags = (r.v # <<>>), !.f = r.f])

\* self.vout = deser_vector(f, CTxOut)
deserialize_vout(st) ==
  Stmt(st, deser_vector(st.f, "CTxOut"), LAMBDA r :
    [st EXCEPT !.tx.vout = r.v, !.f = r.f])

\* self.wit.vtxinwit = [CTxInWitness() for i in range(len(self.vin))]
\* self.wit.deserialize(f)
deserialize_wit(st) ==
  With(CTxWitness_deserialize(
         [i \in 1..Len(st.tx.vin) |-> CTxInWitnessDefault], st.f, st.D, 1),
       LAMBDA r :
    [st EXCEPT !.ok = r.ok, !.tx.wit = r.wit, !.D = r.D, !.f = r.f])

\* self.nLockTime = struct.unpack("<I", f.read(4))[0]; the caches are reset
deserialize_nLockTime(st) ==
  Stmt(st, unpack_from(st.f, 4), LAMBDA r :
    [st EXCEPT !.tx.nLockTime = r.v, !.tx.sha256 = None, !.tx.hash = None,
               !.f = r.f])

\* self.deserialize(f): the frame after the call
CTransaction_deserialize(self, f, D) ==
  AndThen(deserialize_nVersion(
        [ok |-> TRUE, tx |-> self, D |-> D, f |-> f, flags |-> FALSE]),
      LAMBDA s1 :
  AndThen(deserialize_vin(s1), LAMBDA s2 :
  AndThen(IF Len(s2.tx.vin) = 0
      THEN AndThen(deserialize_flags(s2), LAMBDA s3 :
             IF s3.flags
             THEN AndThen(deserialize_vin(s3), LAMBDA s4 : deserialize_vout(s4))
             ELSE s3)
      ELSE deserialize_vout(s2),
      LAMBDA s5 :
  AndThen(IF s5.flags THEN deserialize_wit(s5) ELSE s5, LAMBDA s6 :
    deserialize_nLockTime(s6)))))

serialize_without_witness(self) ==
  pack(self.nVersion, 4) \o ser_vector(self.vin) \o ser_vector(self.vout)
    \o pack(self.nLockTime, 4)

\* serialize_with_witness writing the witness list as a counted vector
serialize_with_witness_counted(self, D) ==
  LET flags == ~CTxWitness_is_null(self.wit, D)
      wit == IF flags /\ Len(self.wit) # Len(self.vin)
             THEN [i \in 1..Len(self.vin) |->
                     IF i <= Len(self.wit) THEN self.wit[i] ELSE CTxInWitnessDefault]
             ELSE self.wit
  IN  [r |-> pack(self.nVersion, 4)
               \o (IF flags THEN ser_compact_size(<<>>) \o pack(<<1>>, 1) ELSE <<>>)
               \o ser_vector(self.vin) \o ser_vector(self.vout)
               \o (IF flags
                   THEN ser_compact_size(NumOf(Len(wit))) \o CTxWitness_serialize(wit, D)
                   ELSE <<>>)
               \o pack(self.nLockTime, 4),
       tx |-> [self EXCEPT !.wit = wit]]

\* self.serialize_with_witness(): the bytes r, and the object after the call
\* (the witness list is cut or padded with CTxInWitness() to len(vin))
serialize_with_witness(self, D) ==
  LET flags == ~CTxWitness_is_null(self.wit, D)
      wit == IF flags /\ Len(self.wit) # Len(self.vin)
             THEN [i \in 1..Len(self.vin) |->
                     IF i <= Len(self.wit) THEN self.wit[i] ELSE CTxInWitnessDefault]
             ELSE self.wit
  IN  [r |-> pack(self.nVersion, 4)
               \o (IF flags THEN ser_compact_size(<<>>) \o pack(<<1>>, 1) ELSE <<>>)
               \o ser_vector(self.vin) \o ser_vector(self.vout)
               \o (IF flags THEN CTxWitness_serialize(wit, D) ELSE <<>>)
               \o pack(self.nLockTime, 4),
       tx |-> [self EXCEPT !.wit = wit]]

\* calc_sha256 hashing the serialization with witness
calc_sha256_with_witness(self) ==
  [self EXCEPT
     !.sha256 = IF self.sha256 = None
                THEN uint256_from_str(hash256(serialize_with_witness(self, <<>>).r))
                ELSE self.sha256,
     !.hash = HexOf(Reverse(hash256(serialize_with_witness(self, <<>>).r)))]

\* self.calc_sha256() (with_witness = False): the object after the call
calc_sha256(self) ==
  [self EXCEPT
     !.sha256 = IF self.sha256 = None
                THEN uint256_from_str(hash256(serialize_without_witness(self)))
                ELSE self.sha256,
     !.hash = HexOf(Reverse(hash256(serialize_without_witness(self))))]

rehash(self) == calc_sha256([self EXCEPT !.sha256 = None])

\* txid computing the hash on every call
txid_uncached(self) ==
  With(calc_sha256([self EXCEPT !.sha256 = None]), LAMBDA s :
    [ret |-> Reverse(ser_uint256(s.sha256)), tx |-> s])

\* self.txid(): the returned bytes and the object after the call
txid(self) ==
  With(IF self.sha256 = None THEN calc_sha256(self) ELSE self, LAMBDA s :
    [ret |-> Reverse(ser_uint256(s.sha256)), tx |-> s])

\* ----------------------------------------------------------- PSBT container
\* A Python dict is the sequence of its <<key, value>> items in insertion
\* order, keys distinct.  A value of a PSBTMap is a byte string or, for a key
\* type read with key data, a dict from key data to byte strings; the
\* finalizer also stores a CTxInWitness object.

\* a bytes value of a PSBTMap
Scalar(v) == [kind |-> "bytes", b |-> v, d |-> <<>>]
\* a dict value of a PSBTMap
SubMap(d) == [kind |-> "dict", b |-> <<>>, d |-> d]
\* a CTxInWitness(CScriptWitness(stack)) object stored as a value
WitnessObject(stack) == [kind |-> "CTxInWitness", b |-> <<>>, d |-> stack]

\* k in m
Has(m, k) == \E j \in 1..Len(m) : m[j][1] = k
\* m[k]
Get(m, k) == m[CHOOSE j \in 1..Len(m) : m[j][1] = k][2]
\* m[k] = v: a new key goes last, a key already present keeps its place
Put(m, k, v) ==
  IF Has(m, k)
  THEN [j \in 1..Len(m) |-> IF m[j][1] = k THEN <<k, v>> ELSE m[j]]
  ELSE Append(m, <<k, v>>)

RECURSIVE PSBTMap_deserialize_loop_replacing(_, _)
\* PSBTMap.deserialize storing m[typ] = {k: v} for every longer key
PSBTMap_deserialize_loop_replacing(f, m) ==
  Then(deser_string(f), LAMBDA rk :
    IF Len(rk.v) = 0 THEN Ok(m, rk.f)
    ELSE Then(deser_string(rk.f), LAMBDA rv :
      IF Len(rk.v) = 1
      THEN IF Has(m, rk.v[1]) THEN Raise(rv.f)
           ELSE PSBTMap_deserialize_loop_replacing(
                  rv.f, Put(m, rk.v[1], Scalar(rv.v)))
      ELSE PSBTMap_deserialize_loop_replacing(
             rv.f, Put(m, rk.v[1], SubMap(<< <<Tail(rk.v), rv.v>> >>)))))

RECURSIVE PSBTMap_deserialize_loop(_, _)
\* the while loop of PSBTMap.deserialize, m being the dict built so far
PSBTMap_deserialize_loop(f, m) ==
  Then(deser_string(f), LAMBDA rk :
    IF Len(rk.v) = 0 THEN Ok(m, rk.f)
    ELSE Then(deser_string(rk.f), LAMBDA rv :
      LET typ == rk.v[1]
          kd == Tail(rk.v)
      IN  IF Len(rk.v) = 1
          THEN IF Has(m, typ) THEN Raise(rv.f)          \* assert k not in m
               ELSE PSBTMap_deserialize_loop(rv.f, Put(m, typ, Scalar(rv.v)))
          ELSE IF ~Has(m, typ)
          THEN PSBTMap_deserialize_loop(
                 rv.f, Put(m, typ, SubMap(<< <<kd, rv.v>> >>)))
          ELSE IF Get(m, typ).kind # "dict"
          THEN Raise(rv.f)                              \* bytes[k] = v: TypeError
          ELSE PSBTMap_deserialize_loop(
                 rv.f, Put(m, typ, SubMap(Put(Get(m, typ).d, kd, rv.v))))))

\* PSBTMap().deserialize(f): the map read
PSBTMap_deserialize(f) == PSBTMap_deserialize_loop(f, <<>>)

RECURSIVE SortSet(_)
\* sorted(S) for a set of integers
SortSet(S) ==
  IF S = {} THEN <<>>
  ELSE LET x == CHOOSE y \in S : \A z \in S : y <= z
       IN  <<x>> \o SortSet(S \ {x})

\* sorted(self.map): the key types in ascending order
sorted(m) == SortSet({m[j][1] : j \in 1..Len(m)})

\* PSBTMap.serialize iterating over self.map instead of sorted(self.map)
PSBTMap_serialize_unsorted(m) ==
  [ok |-> \A j \in 1..Len(m) : m[j][2].kind # "CTxInWitness",
   r |-> Concat([j \in 1..Len(m) |->
           IF m[j][2].kind = "dict"
           THEN Concat([k \in 1..Len(m[j][2].d) |->
                  ser_string(<<m[j][1]>> \o m[j][2].d[k][1])
                    \o ser_string(m[j][2].d[k][2])])
           ELSE ser_string(<<m[j][1]>>) \o ser_string(m[j][2].b)]) \o <<0>>]

\* PSBTMap.serialize writing the key type of a dict entry without its key data
PSBTMap_serialize_no_key_data(m) ==
  [ok |-> \A j \in 1..Len(m) : m[j][2].kind # "CTxInWitness",
   r |-> Concat([j \in 1..Len(sorted(m)) |->
           IF Get(m, sorted(m)[j]).kind = "dict"
           THEN Concat([k \in 1..Len(Get(m, sorted(m)[j]).d) |->
                  ser_string(<<sorted(m)[j]>>)
                    \o ser_string(Get(m, sorted(m)[j]).d[k][2])])
           ELSE ser_string(<<sorted(m)[j]>>)
                  \o ser_string(Get(m, sorted(m)[j]).b)]) \o <<0>>]

\* self.serialize(): the bytes r; ok = FALSE when a value is neither bytes nor
\* a dict (len() raises TypeError)
PSBTMap_serialize(m) ==
  LET keys == sorted(m)
      one(key_type) ==
        LET psbt_val == Get(m, key_type)
        IN  IF psbt_val.kind = "dict"
            THEN Concat([j \in 1..Len(psbt_val.d) |->
                   ser_string(<<key_type>> \o psbt_val.d[j][1])
                     \o ser_string(psbt_val.d[j][2])])
            ELSE ser_string(<<key_type>>) \o ser_string(psbt_val.b)
  IN  IF \E j \in 1..Len(m) : m[j][2].kind = "CTxInWitness"
      THEN [ok |-> FALSE, r |-> <<>>]
      ELSE [ok |-> TRUE, r |-> Concat([j \in 1..Len(keys) |-> one(keys[j])]) \o <<0>>]

\* from_binary(CTransaction, b) for a bytes object b: a fresh CTransaction,
\* deserialize, then assert nothing is left
from_binary_CTransaction(b, D) ==
  With(CTransaction_deserialize(CTransaction, BytesIO(b), D), LAMBDA r :
    [r EXCEPT !.ok = r.ok /\ r.f.pos = Len(b)])

\* from_binary(CTxOut, b) for a bytes object b
from_binary_CTxOut(b) ==
  With(CTxOut_deserialize(BytesIO(b)), LAMBDA r :
    [r EXCEPT !.ok = r.ok /\ r.f.pos = Len(b)])

RECURSIVE from_binary_PSBTMaps(_, _, _)
\* [from_binary(PSBTMap, f) for _ in range(n)] on the stream f
from_binary_PSBTMaps(f, n, acc) ==
  IF n = 0 THEN Ok(acc, f)
  ELSE Then(PSBTMap_deserialize(f), LAMBDA r :
         from_binary_PSBTMaps(r.f, n - 1, Append(acc, r.v)))

PSBT_GLOBAL_UNSIGNED_TX == 0
PSBT_GLOBAL_XPUB == 1

\* b"psbt\xff"
Magic == <<112, 115, 98, 116, 255>>

\* PSBT(): g an empty PSBTMap, no input or output map, tx None
PSBT == [g |-> <<>>, i |-> <<>>, o |-> <<>>, tx |-> NoneObject]

\* PSBT.deserialize runs on a frame st: the object so far (v), the stream f,
\* the stack D of the default CScriptWitness, ok = FALSE once it has raised.

\* PSBT.deserialize comparing only the four letters of the magic
PSBT_deserialize_magic_letters(st) ==
  With(read(st.f, 5), LAMBDA r :
    [st EXCEPT !.ok = (SubSeq(r.v, 1, Min(Len(r.v), 4)) = SubSeq(Magic, 1, 4)),
               !.f = r.f])

\* assert f.read(5) == b"psbt\xff"
PSBT_deserialize_magic(st) ==
  With(read(st.f, 5), LAMBDA r : [st EXCEPT !.ok = (r.v = Magic), !.f = r.f])

\* self.g = from_binary(PSBTMap, f)
PSBT_deserialize_g(st) ==
  Stmt(st, PSBTMap_deserialize(st.f), LAMBDA r :
    [st EXCEPT !.v.g = r.v, !.f = r.f])

\* assert 0 in self.g.map
\* self.tx = from_binary(CTransaction, self.g.map[0])
PSBT_deserialize_tx(st) ==
  IF ~Has(st.v.g, PSBT_GLOBAL_UNSIGNED_TX) THEN [st EXCEPT !.ok = FALSE]
  ELSE IF Get(st.v.g, PSBT_GLOBAL_UNSIGNED_TX).kind # "bytes"
  THEN [st EXCEPT !.ok = FALSE]
  ELSE With(from_binary_CTransaction(Get(st.v.g, PSBT_GLOBAL_UNSIGNED_TX).b, st.D),
            LAMBDA r :
         [st EXCEPT !.ok = r.ok, !.v.tx = IF r.ok THEN r.tx ELSE @, !.D = r.D])

\* self.i = [from_binary(PSBTMap, f) for _ in self.tx.vin]
PSBT_deserialize_i(st) ==
  Stmt(st, from_binary_PSBTMaps(st.f, Len(st.v.tx.vin), <<>>), LAMBDA r :
    [st EXCEPT !.v.i = r.v, !.f = r.f])

\* self.o = [from_binary(PSBTMap, f) for _ in self.tx.vout]
PSBT_deserialize_o(st) ==
  Stmt(st, from_binary_PSBTMaps(st.f, Len(st.v.tx.vout), <<>>), LAMBDA r :
    [st EXCEPT !.v.o = r.v, !.f = r.f])

\* self.deserialize(f): the frame after the call
PSBT_deserialize(self, f, D) ==
  AndThen(PSBT_deserialize_magic([ok |-> TRUE, v |-> self, f |-> f, D |-> D]),
      LAMBDA s1 :
  AndThen(PSBT_deserialize_g(s1), LAMBDA s2 :
  AndThen(PSBT_deserialize_tx(s2), LAMBDA s3 :
  AndThen(PSBT_deserialize_i(s3), LAMBDA s4 :
    PSBT_deserialize_o(s4)))))

\* from_binary without its final assert on the unread bytes
from_binary_PSBT_unchecked(b, D) == PSBT_deserialize(PSBT, BytesIO(b), D)

\* from_binary(PSBT, b) for a bytes object b
from_binary_PSBT(b, D) ==
  With(PSBT_deserialize(PSBT, BytesIO(b), D), LAMBDA r :
    [r EXCEPT !.ok = r.ok /\ r.f.pos = Len(b)])

\* PSBT.serialize writing self.tx under global key 0
PSBT_serialize_from_tx(self, D) ==
  IF ~Has(self.g, PSBT_GLOBAL_UNSIGNED_TX) THEN [ok |-> FALSE, r |-> <<>>, D |-> D]
  ELSE
  With(<<Put(self.g, PSBT_GLOBAL_UNSIGNED_TX,
             Scalar(serialize_without_witness(self.tx)))>> \o self.i \o self.o,
       LAMBDA maps :
    [ok |-> \A j \in 1..Len(maps) : PSBTMap_serialize(maps[j]).ok,
     r |-> Magic \o Concat([j \in 1..Len(maps) |-> PSBTMap_serialize(maps[j]).r]),
     D |-> D])

\* the asserts of PSBT.serialize on the map counts, tx being the decoded
\* unsigned transaction
PSBT_serialize_counts(self, t) ==
  Len(t.vin) = Len(self.i) /\ Len(t.vout) = Len(self.o)

\* self.serialize(): the bytes r, ok = FALSE when an assert fails, and D after
\* the call (the unsigned transaction is decoded to count its inputs)
PSBT_serialize(self, D) ==
  IF ~Has(self.g, PSBT_GLOBAL_UNSIGNED_TX) THEN [ok |-> FALSE, r |-> <<>>, D |-> D]
  ELSE IF Get(self.g, PSBT_GLOBAL_UNSIGNED_TX).kind # "bytes"
  THEN [ok |-> FALSE, r |-> <<>>, D |-> D]
  ELSE
  With(from_binary_CTransaction(Get(self.g, PSBT_GLOBAL_UNSIGNED_TX).b, D),
       LAMBDA rt :
  With(<<self.g>> \o self.i \o self.o, LAMBDA maps :
  With([j \in 1..Len(maps) |-> PSBTMap_serialize(maps[j])], LAMBDA sers :
    IF ~rt.ok THEN [ok |-> FALSE, r |-> <<>>, D |-> rt.D]
    ELSE IF ~PSBT_serialize_counts(self, rt.tx)
    THEN [ok |-> FALSE, r |-> <<>>, D |-> rt.D]
    ELSE IF \E j \in 1..Len(maps) : ~sers[j].ok
    THEN [ok |-> FALSE, r |-> <<>>, D |-> rt.D]
    ELSE [ok |-> TRUE,
          r |-> Magic \o Concat([j \in 1..Len(maps) |-> sers[j].r]),
          D |-> rt.D])))

\* base64.b64encode(b).decode("utf8"): a string over the base64 alphabet, each
\* character held as its index 0..63, '=' as 64.  Character c of group g
\* holds 6 bits of the bytes 3g+1..3g+3.
b64encode(b) ==
  LET n == Len(b)
      byte(k) == IF k <= n THEN b[k] ELSE 0
      char(g, c) ==
        LET b1 == byte(3 * g + 1)
            b2 == byte(3 * g + 2)
            b3 == byte(3 * g + 3)
        IN  IF c = 1 THEN b1 \div 4
            ELSE IF c = 2 THEN (b1 % 4) * 16 + b2 \div 16
            ELSE IF c = 3 THEN (IF 3 * g + 2 > n THEN 64 ELSE (b2 % 16) * 4 + b3 \div 64)
            ELSE (IF 3 * g + 3 > n THEN 64 ELSE b3 % 64)
  IN  [k \in 1..(4 * ((n + 2) \div 3)) |-> char((k - 1) \div 4, ((k - 1) % 4) + 1)]

\* base64.b64decode(s) of a string of alphabet characters: binascii.Error
\* (ok = FALSE) when the padding is incorrect
b64decode(s) ==
  LET n == Len(s)
      pad == IF n >= 1 /\ s[n] = 64 THEN (IF n >= 2 /\ s[n - 1] = 64 THEN 2 ELSE 1)
             ELSE 0
      sextet(k) == IF s[k] = 64 THEN 0 ELSE s[k]
      byte(g, c) ==
        IF c = 1 THEN sextet(4 * g + 1) * 4 + sextet(4 * g + 2) \div 16
        ELSE IF c = 2 THEN (sextet(4 * g + 2) % 16) * 16 + sextet(4 * g + 3) \div 4
        ELSE (sextet(4 * g + 3) % 4) * 64 + sextet(4 * g + 4)
  IN  IF n % 4 # 0 \/ (\E k \in 1..(n - pad) : s[k] = 64)
      THEN [ok |-> FALSE, v |-> <<>>]
      ELSE [ok |-> TRUE,
            v |-> [k \in 1..(3 * (n \div 4) - pad) |->
                     byte((k - 1) \div 3, ((k - 1) % 3) + 1)]]

\* self.to_base64()
to_base64(self, D) ==
  With(PSBT_serialize(self, D), LAMBDA r :
    [r EXCEPT !.r = IF r.ok THEN b64encode(r.r) ELSE <<>>])

\* PSBT.from_base64(b64psbt)
from_base64(b64psbt, D) ==
  With(b64decode(b64psbt), LAMBDA b :
    IF ~b.ok THEN [ok |-> FALSE, v |-> PSBT, f |-> BytesIO(<<>>), D |-> D]
    ELSE from_binary_PSBT(b.v, D))

PSBT_IN_WITNESS_UTXO == 1
PSBT_IN_PARTIAL_SIG == 2
PSBT_IN_WITNESS_SCRIPT == 5
PSBT_IN_BIP32_DERIVATION == 6
PSBT_IN_FINAL_SCRIPTWITNESS == 8
PSBT_OUT_BIP32_DERIVATION == 2

\* sighash_all_witness taking the amount from the first input's witness UTXO
sighash_preimage_first_utxo(script_code, p, i, acp) ==
  IF ~Has(p.i[i + 1], PSBT_IN_WITNESS_UTXO) THEN [ok |-> FALSE, v |-> <<>>]
  ELSE IF Get(p.i[i + 1], PSBT_IN_WITNESS_UTXO).kind # "bytes" THEN [ok |-> FALSE, v |-> <<>>]
  ELSE
  With(from_binary_CTxOut(Get(p.i[IF Has(p.i[1], PSBT_IN_WITNESS_UTXO) THEN 1 ELSE i + 1],
                              PSBT_IN_WITNESS_UTXO).b), LAMBDA prev_txo :
    IF ~prev_txo.ok THEN [ok |-> FALSE, v |-> <<>>]
    ELSE
    [ok |-> TRUE,
     v |-> pack(p.tx.nVersion, 4)
             \o (IF acp THEN Zeros(32)
                 ELSE hash256(Concat([j \in 1..Len(p.tx.vin) |->
                        COutPoint_serialize(p.tx.vin[j].prevout)])))
             \o (IF acp THEN Zeros(32)
                 ELSE hash256(Concat([j \in 1..Len(p.tx.vin) |->
                        pack(p.tx.vin[j].nSequence, 4)])))
             \o COutPoint_serialize(p.tx.vin[i + 1].prevout)
             \o ser_string(script_code)
             \o pack(prev_txo.v.nValue, 8)
             \o pack(p.tx.vin[i + 1].nSequence, 4)
             \o hash256(Concat([j \in 1..Len(p.tx.vout) |->
                   CTxOut_serialize(p.tx.vout[j])]))
             \o pack(p.tx.nLockTime, 4)
             \o (IF acp THEN <<129, 0, 0, 0>> ELSE <<1, 0, 0, 0>>)])

\* sighash_all_witness's preimage with hashOutputs zeroed as well under
\* anyone-can-pay
sighash_preimage_acp_outputs(script_code, p, i, acp) ==
  IF ~Has(p.i[i + 1], PSBT_IN_WITNESS_UTXO) THEN [ok |-> FALSE, v |-> <<>>]
  ELSE IF Get(p.i[i + 1], PSBT_IN_WITNESS_UTXO).kind # "bytes" THEN [ok |-> FALSE, v |-> <<>>]
  ELSE
  With(from_binary_CTxOut(Get(p.i[i + 1], PSBT_IN_WITNESS_UTXO).b), LAMBDA prev_txo :
    IF ~prev_txo.ok THEN [ok |-> FALSE, v |-> <<>>]
    ELSE
    [ok |-> TRUE,
     v |-> pack(p.tx.nVersion, 4)
             \o (IF acp THEN Zeros(32)
                 ELSE hash256(Concat([j \in 1..Len(p.tx.vin) |->
                        COutPoint_serialize(p.tx.vin[j].prevout)])))
             \o (IF acp THEN Zeros(32)
                 ELSE hash256(Concat([j \in 1..Len(p.tx.vin) |->
                        pack(p.tx.vin[j].nSequence, 4)])))
             \o COutPoint_serialize(p.tx.vin[i + 1].prevout)
             \o ser_string(script_code)
             \o pack(prev_txo.v.nValue, 8)
             \o pack(p.tx.vin[i + 1].nSequence, 4)
             \o (IF acp THEN Zeros(32)
                 ELSE hash256(Concat([j \in 1..Len(p.tx.vout) |->
                        CTxOut_serialize(p.tx.vout[j])])))
             \o pack(p.tx.nLockTime, 4)
             \o (IF acp THEN <<129, 0, 0, 0>> ELSE <<1, 0, 0, 0>>)])

\* the sighash preimage of sighash_all_witness (i counts the inputs from 0);
\* ok = FALSE when input map i has no witness UTXO or it does not decode
sighash_preimage(script_code, p, i, acp) ==
  LET vin == p.tx.vin
      hashPrevouts ==
        IF ~acp
        THEN hash256(Concat([j \in 1..Len(vin) |-> COutPoint_serialize(vin[j].prevout)]))
        ELSE Zeros(32)
      hashSequence ==
        IF ~acp
        THEN hash256(Concat([j \in 1..Len(vin) |-> pack(vin[j].nSequence, 4)]))
        ELSE Zeros(32)
      hashOutputs ==
        hash256(Concat([j \in 1..Len(p.tx.vout) |-> CTxOut_serialize(p.tx.vout[j])]))
      sighash_type == IF ~acp THEN <<1, 0, 0, 0>> ELSE <<129, 0, 0, 0>>
      m == p.i[i + 1]
  IN  IF ~Has(m, PSBT_IN_WITNESS_UTXO) THEN [ok |-> FALSE, v |-> <<>>]
      ELSE IF Get(m, PSBT_IN_WITNESS_UTXO).kind # "bytes" THEN [ok |-> FALSE, v |-> <<>>]
      ELSE
      With(from_binary_CTxOut(Get(m, PSBT_IN_WITNESS_UTXO).b), LAMBDA prev_txo :
        IF ~prev_txo.ok THEN [ok |-> FALSE, v |-> <<>>]
        ELSE [ok |-> TRUE,
              v |-> pack(p.tx.nVersion, 4)
                      \o hashPrevouts
                      \o hashSequence
                      \o COutPoint_serialize(vin[i + 1].prevout)
                      \o ser_string(script_code)
                      \o pack(prev_txo.v.nValue, 8)
                      \o pack(vin[i + 1].nSequence, 4)
                      \o hashOutputs
                      \o pack(p.tx.nLockTime, 4)
                      \o sighash_type])

sighash_all_witness(script_code, p, i, acp) ==
  With(sighash_preimage(script_code, p, i, acp), LAMBDA pre :
    IF ~pre.ok THEN pre ELSE [ok |-> TRUE, v |-> hash256(pre.v)])

\* a call of sighash_all_witness that also computes and caches the txid
sighash_all_witness_call_caching(script_code, p, i, acp) ==
  [r |-> sighash_all_witness(script_code, p, i, acp),
   psbt |-> [p EXCEPT !.tx = calc_sha256(p.tx)]]

\* a call sighash_all_witness(script_code, psbt, i, acp): the value returned
\* (r) and the psbt argument after the call; the function only reads psbt
sighash_all_witness_call(script_code, p, i, acp) ==
  [r |-> sighash_all_witness(script_code, p, i, acp), psbt |-> p]

\* ------------------------------------------------------------ input sets

MaxIn == 2
MaxOut == 2

\* all sequences over S of length 0..n
SeqsUpTo(S, n) == UNION {[1..k -> S] : k \in 0..n}

TxInChoices ==
  { [prevout |-> [hash |-> <<1>>, n |-> <<>>], scriptSig |-> <<>>,
     nSequence |-> <<253, 255, 255, 255>>],
    [prevout |-> [hash |-> <<0, 2>>, n |-> <<1>>], scriptSig |-> <<81>>,
     nSequence |-> <<>>] }

TxOutChoices ==
  { [nValue |-> <<160, 134, 1>>, scriptPubKey |-> <<0, 2, 7, 7>>],
    [nValue |-> <<5>>, scriptPubKey |-> <<>>] }

StackChoices == { <<>>, << <<7>> >>, << <<>>, <<8, 9>> >> }

\* the transactions a caller builds field by field on a CTransaction()
Transactions ==
  { [CTransaction EXCEPT !.nVersion = <<2>>, !.vin = vin, !.vout = vout,
                         !.wit = [i \in 1..Len(w) |-> CTxInWitness(w[i])],
                         !.nLockTime = lt] :
      vin \in SeqsUpTo(TxInChoices, MaxIn), vout \in SeqsUpTo(TxOutChoices, MaxOut),
      w \in SeqsUpTo(StackChoices, MaxIn), lt \in {<<>>, <<144, 1>>} }

\* ------------------------------------------- SpecTx: transaction round trip
\* The caller builds a transaction, serializes it, decodes the bytes into a
\* fresh CTransaction and serializes the result again.

TxInit ==
  /\ pc = "start"
  /\ tx \in Transactions
  /\ tx2 = CTransaction
  /\ shared = <<>>
  /\ buf = <<>>
  /\ out = <<>>
  /\ ret = NoRet
  /\ err = FALSE
  /\ frame = <<>>
  /\ tailable = NoneObject
  /\ psbt = NoneObject
  /\ psbt2 = NoneObject

\* buf = tx.serialize_with_witness()
TxSerializeWithWitness ==
  /\ pc = "start"
  /\ \E r \in {serialize_with_witness(tx, shared)} :
         /\ buf' = r.r
         /\ tx' = r.tx
  /\ pc' = "ser_w"
  /\ UNCHANGED <<tx2, shared, out, ret, err, psbt, psbt2, frame, tailable>>

\* buf = tx.serialize_without_witness()
TxSerializeWithoutWitness ==
  /\ pc = "start"
  /\ buf' = serialize_without_witness(tx)
  /\ pc' = "ser_nw"
  /\ UNCHANGED <<tx, tx2, shared, out, ret, err, psbt, psbt2, frame, tailable>>

\* tx2 = CTransaction(); tx2.deserialize(BytesIO(buf))
TxDeserialize ==
  /\ pc \in {"ser_w", "ser_nw"}
  /\ \E r \in {CTransaction_deserialize(tx2, BytesIO(buf), shared)} :
         /\ tx2' = r.tx
         /\ shared' = r.D
         /\ err' = ~r.ok
  /\ pc' = IF pc = "ser_w" THEN "dec_w" ELSE "dec_nw"
  /\ UNCHANGED <<tx, buf, out, ret, psbt, psbt2, frame, tailable>>

\* out = tx2.serialize_with_witness()
TxReserialize ==
  /\ pc \in {"dec_w", "dec_nw"}
  /\ ~err
  /\ \E r \in {serialize_with_witness(tx2, shared)} :
         /\ out' = r.r
         /\ tx2' = r.tx
  /\ pc' = IF pc = "dec_w" THEN "done_w" ELSE "done_nw"
  /\ UNCHANGED <<tx, shared, buf, ret, err, psbt, psbt2, frame, tailable>>

TxNext ==
  \/ TxSerializeWithWitness
  \/ TxSerializeWithoutWitness
  \/ TxDeserialize
  \/ TxReserialize

SpecTx == TxInit /\ [][TxNext]_vars

\* the witness stack of input i of transaction t (empty when t has no entry)
WitStack(t, i, D) == IF i <= Len(t.wit) THEN StackOf(t.wit[i], D) ELSE <<>>

\* a and b agree on version, inputs, outputs and locktime
SameFields(a, b) ==
  /\ a.nVersion = b.nVersion
  /\ a.vin = b.vin
  /\ a.vout = b.vout
  /\ a.nLockTime = b.nLockTime

\* ... and on every input's witness stack
SameWitness(a, b, D) ==
  \A i \in 1..Len(b.vin) : WitStack(a, i, D) = WitStack(b, i, D)

\* C2 (as claimed): a transaction with at least one input and one witness
\* entry per input, serialized with witness and decoded into a fresh
\* CTransaction, comes back equal (version, inputs, outputs, every input's
\* own witness stack, locktime), and serializing the result with witness
\* gives the same bytes.  (Every entry being the caller's own excludes the
\* lists that serialize_with_witness has padded.)
C2_RoundTripWithWitness ==
  (/\ pc \in {"dec_w", "done_w"}
   /\ Len(tx.vin) >= 1
   /\ Len(tx.wit) = Len(tx.vin)
   /\ \A i \in 1..Len(tx.wit) : tx.wit[i].own)
    => /\ ~err
       /\ SameFields(tx2, tx)
       /\ SameWitness(tx2, tx, shared)
       /\ (pc = "done_w" => out = buf)

\* C3 (as claimed): every transaction without a witness, zero inputs
\* included, serialized without witness and decoded into a fresh
\* CTransaction, comes back equal in version, inputs, outputs and locktime.
C3_RoundTripAnyInputs ==
  (pc = "dec_nw" /\ tx.wit = <<>>) => (~err /\ SameFields(tx2, tx))

\* C3 (amended): the same for a transaction with at least one input, or with
\* no input and no output.
C3_RoundTripWithoutWitness ==
  (pc = "dec_nw" /\ tx.wit = <<>> /\ (Len(tx.vin) >= 1 \/ Len(tx.vout) = 0))
    => (~err /\ SameFields(tx2, tx))

\* C3's case: a transaction with inputs and outputs and no witness was decoded.
C3_Witness ==
  /\ pc = "dec_nw"
  /\ tx.wit = <<>>
  /\ Len(tx.vin) = MaxIn
  /\ Len(tx.vout) >= 1
  /\ ~err
  /\ tx2.vin = tx.vin

\* --------------------------------------------------------- PSBT input sets
\* The PSBTs the tests handle come from lianad: an unsigned transaction with
\* at least one input, per-input maps holding the witness UTXO, the witness
\* script and keyed entries (partial signatures, BIP32 derivations), and
\* per-output maps holding BIP32 derivations.

PsbtTxIn(k) ==
  [prevout |-> [hash |-> <<k>>, n |-> NumOf(k - 1)], scriptSig |-> <<>>,
   nSequence |-> <<255 - k, 255, 255, 255>>]

PsbtTxOut(k) == [nValue |-> <<k, 39>>, scriptPubKey |-> <<0, 2, k, k>>]

\* the transaction PSBT.deserialize builds from the bytes under key 0
UnsignedTx(n, m) ==
  [CTransaction EXCEPT !.nVersion = <<2>>,
                       !.vin = [k \in 1..n |-> PsbtTxIn(k)],
                       !.vout = [k \in 1..m |-> PsbtTxOut(k)],
                       !.nLockTime = NumOf(m)]

PubKey(k) == <<2, k>>

\* the output spent by input k, as stored under PSBT_IN_WITNESS_UTXO
WitnessUtxo(k) ==
  CTxOut_serialize([nValue |-> <<16 * k, 39>>, scriptPubKey |-> <<0, 32, k>>])

InputMapChoices(k) ==
  { <<>>,
    << <<PSBT_IN_WITNESS_UTXO, Scalar(WitnessUtxo(k))>>,
       <<PSBT_IN_WITNESS_SCRIPT, Scalar(<<81, k>>)>> >>,
    << <<PSBT_IN_BIP32_DERIVATION,
         SubMap(<< <<PubKey(2), <<9, 0>>>>, <<PubKey(1), <<9, 1>>>> >>)>>,
       <<PSBT_IN_PARTIAL_SIG, SubMap(<< <<PubKey(1), <<48, k>>>> >>)>>,
       <<PSBT_IN_WITNESS_UTXO, Scalar(WitnessUtxo(k))>> >> }

OutputMapChoices ==
  { <<>>,
    << <<PSBT_OUT_BIP32_DERIVATION, SubMap(<< <<PubKey(1), <<9, 9>>>> >>)>> >> }

GlobalMapChoices(t) ==
  { << <<PSBT_GLOBAL_UNSIGNED_TX, Scalar(serialize_without_witness(t))>> >>,
    << <<PSBT_GLOBAL_XPUB, SubMap(<< <<<<4, 136>>, <<9>>>> >>)>>,
       <<PSBT_GLOBAL_UNSIGNED_TX, Scalar(serialize_without_witness(t))>> >> }

\* the decoded PSBTs over an unsigned transaction with n inputs and m outputs
PsbtsOf(n, m) ==
  { [g |-> g, i |-> im, o |-> om, tx |-> UnsignedTx(n, m)] :
      g \in GlobalMapChoices(UnsignedTx(n, m)),
      im \in {f \in [1..n -> UNION {InputMapChoices(k) : k \in 1..n}] :
                \A k \in 1..n : f[k] \in InputMapChoices(k)},
      om \in [1..m -> OutputMapChoices] }

PsbtObjects == UNION {PsbtsOf(n, m) : n \in 1..MaxIn, m \in 0..MaxOut}

\* the PSBT over n inputs and m outputs with every map filled
SamplePsbt(n, m) ==
  [g |-> << <<PSBT_GLOBAL_UNSIGNED_TX,
              Scalar(serialize_without_witness(UnsignedTx(n, m)))>> >>,
   i |-> [k \in 1..n |->
            << <<PSBT_IN_WITNESS_UTXO, Scalar(WitnessUtxo(k))>>,
               <<PSBT_IN_WITNESS_SCRIPT, Scalar(<<81, k>>)>>,
               <<PSBT_IN_BIP32_DERIVATION,
                 SubMap(<< <<PubKey(1), <<9, 1>>>>, <<PubKey(2), <<9, 0>>>> >>)>> >>],
   o |-> [k \in 1..m |->
            << <<PSBT_OUT_BIP32_DERIVATION,
                 SubMap(<< <<PubKey(1), <<9, 9>>>> >>)>> >>],
   tx |-> UnsignedTx(n, m)]

\* the serialization of the maps ms after the magic
WireOf(ms) == Magic \o Concat([j \in 1..Len(ms) |-> PSBTMap_serialize(ms[j]).r])

\* p.serialize()
Wire(p) == WireOf(<<p.g>> \o p.i \o p.o)

Prefixes(b) == {SubSeq(b, 1, k) : k \in 0..Len(b)}

\* ------------------------------------------ SpecDec: decoding received bytes
\* A buffer arrives from outside and one of the decoders is run on it; a
\* decoded PSBT may then be rebuilt with other map lists and serialized.

MaxBuf == 3

ByteChoices == {0, 1, 2, 253, 255}

ShortBuffers == SeqsUpTo(ByteChoices, MaxBuf)

DecPsbts == {SamplePsbt(n, m) : n \in 1..MaxIn, m \in 0..1}

DecTxs ==
  { [UnsignedTx(1, 1) EXCEPT !.wit = <<CTxInWitness(<< <<7>> >>)>>],
    [UnsignedTx(MaxIn, 0) EXCEPT !.nLockTime = <<144, 1>>] }

\* count 0 then flag 0 where a transaction is expected
FlagZeroBuffers ==
  { <<2, 0, 0, 0, 0, 0>> \o rest :
      rest \in {<<0, 0, 0, 0>>, <<144, 1, 0, 0>>, <<1, 2, 3>>, <<0, 0, 0, 0, 9>>} }

\* a well-formed PSBT followed by one more map
MoreMaps ==
  { Wire(p) \o PSBTMap_serialize(m).r : p \in DecPsbts, m \in OutputMapChoices }

\* a well-formed PSBT without its last map
FewerMaps ==
  { LET ms == <<p.g>> \o p.i \o p.o IN WireOf(SubSeq(ms, 1, Len(ms) - 1)) :
      p \in DecPsbts }

BadMagic ==
  {<<112>>, <<112, 115, 98, 116>>}
    \cup UNION { {[Wire(p) EXCEPT ![5] = 254], [Wire(p) EXCEPT ![1] = 80],
                  Tail(Wire(p))} : p \in DecPsbts }

\* a global map without key 0: empty, holding only an xpub, or with key data
\* after the key type 0
NoUnsignedTx ==
  { WireOf(<<g>> \o p.i \o p.o) :
      p \in DecPsbts,
      g \in { <<>>,
              << <<PSBT_GLOBAL_XPUB, SubMap(<< <<<<4, 136>>, <<9>>>> >>)>> >> } }

DecBuffers ==
  ShortBuffers
    \cup UNION {Prefixes(CTxOut_serialize(o)) : o \in TxOutChoices}
    \cup UNION {Prefixes(serialize_with_witness(t, <<>>).r) : t \in DecTxs}
    \cup FlagZeroBuffers
    \cup {Wire(p) : p \in DecPsbts}
    \cup Prefixes(Wire(SamplePsbt(MaxIn, 1)))
    \cup MoreMaps \cup FewerMaps \cup BadMagic \cup NoUnsignedTx

DecInit ==
  /\ pc = "start"
  /\ buf \in DecBuffers
  /\ tx = CTransaction
  /\ tx2 = CTransaction
  /\ shared = <<>>
  /\ out = <<>>
  /\ ret = NoRet
  /\ err = FALSE
  /\ frame = <<>>
  /\ tailable = NoneObject
  /\ psbt = NoneObject
  /\ psbt2 = NoneObject

\* psbt2 = PSBT.from_base64(s) for the base64 text s of the buffer
DecFromBase64 ==
  /\ pc = "start"
  /\ \E r \in {from_base64(b64encode(buf), shared)} :
         /\ psbt2' = IF r.ok THEN r.v ELSE NoneObject
         /\ shared' = r.D
         /\ err' = ~r.ok
  /\ pc' = "from_base64"
  /\ UNCHANGED <<tx, tx2, buf, out, ret, psbt, frame, tailable>>

\* psbt2 = PSBT().deserialize(BytesIO(buf))
DecPsbtDeserialize ==
  /\ pc = "start"
  /\ \E r \in {PSBT_deserialize(PSBT, BytesIO(buf), shared)} :
         /\ psbt2' = IF r.ok THEN r.v ELSE NoneObject
         /\ shared' = r.D
         /\ err' = ~r.ok
  /\ pc' = "psbt_deserialize"
  /\ UNCHANGED <<tx, tx2, buf, out, ret, psbt, frame, tailable>>

\* tx2 = CTransaction(); tx2.deserialize(BytesIO(buf))
DecTransaction ==
  /\ pc = "start"
  /\ \E r \in {CTransaction_deserialize(tx2, BytesIO(buf), shared)} :
         /\ tx2' = r.tx
         /\ shared' = r.D
         /\ err' = ~r.ok
  /\ pc' = "tx_deserialize"
  /\ UNCHANGED <<tx, buf, out, ret, psbt, psbt2, frame, tailable>>

\* ret = CTxOut(); ret.deserialize(BytesIO(buf))
DecTxOut ==
  /\ pc = "start"
  /\ \E r \in {CTxOut_deserialize(BytesIO(buf))} :
         /\ ret' = Ret("CTxOut.deserialize", r.f.pos, r.v)
         /\ err' = ~r.ok
  /\ pc' = "txout"
  /\ UNCHANGED <<tx, tx2, shared, buf, out, psbt, psbt2, frame, tailable>>

\* ret = deser_compact_size(BytesIO(buf))
DecCompactSize ==
  /\ pc = "start"
  /\ \E r \in {deser_compact_size(BytesIO(buf))} :
         /\ ret' = Ret("deser_compact_size", r.f.pos, r.v)
         /\ err' = ~r.ok
  /\ pc' = "compact_size"
  /\ UNCHANGED <<tx, tx2, shared, buf, out, psbt, psbt2, frame, tailable>>

\* ret = deser_string(BytesIO(buf))
DecString ==
  /\ pc = "start"
  /\ \E r \in {deser_string(BytesIO(buf))} :
         /\ ret' = Ret("deser_string", r.f.pos, r.v)
         /\ err' = ~r.ok
  /\ pc' = "string"
  /\ UNCHANGED <<tx, tx2, shared, buf, out, psbt, psbt2, frame, tailable>>

\* psbt2 = PSBT(g=psbt2.g, i=..., o=...): the decoded maps with ni input maps
\* and no output maps (fewer, or more by empty PSBTMap()s)
DecConstruct ==
  /\ pc = "from_base64"
  /\ ~err
  /\ \E ni \in 0..(MaxIn + 1), no \in 0..2 :
       LET fit(l, n) == [k \in 1..n |-> IF k <= Len(l) THEN l[k] ELSE <<>>]
       IN  psbt2' = [PSBT EXCEPT !.g = psbt2.g, !.i = fit(psbt2.i, ni),
                                 !.o = fit(psbt2.o, no)]
  /\ pc' = "constructed"
  /\ UNCHANGED <<tx, tx2, shared, buf, out, ret, err, psbt, frame, tailable>>

\* out = psbt2.serialize()
DecSerialize ==
  /\ pc \in {"from_base64", "constructed"}
  /\ ~err
  /\ \E r \in {PSBT_serialize(psbt2, shared)} :
         /\ out' = r.r
         /\ shared' = r.D
         /\ err' = ~r.ok
  /\ pc' = "serialized"
  /\ UNCHANGED <<tx, tx2, buf, ret, psbt, psbt2, frame, tailable>>

DecNext ==
  \/ DecFromBase64
  \/ DecPsbtDeserialize
  \/ DecTransaction
  \/ DecTxOut
  \/ DecCompactSize
  \/ DecString
  \/ DecConstruct
  \/ DecSerialize

SpecDec == DecInit /\ [][DecNext]_vars

\* C7: PSBT.from_base64 returns a PSBT with exactly one input map per input
\* and one output map per output of the transaction under key 0; bytes with
\* one map fewer or one map more are rejected; serialize raises and returns
\* nothing when the map counts differ from the transaction's counts.
C7_MapCounts ==
  /\ (pc = "from_base64" /\ ~err)
       => /\ psbt2.tx =
               from_binary_CTransaction(Get(psbt2.g, PSBT_GLOBAL_UNSIGNED_TX).b, <<>>).tx
          /\ Len(psbt2.i) = Len(psbt2.tx.vin)
          /\ Len(psbt2.o) = Len(psbt2.tx.vout)
  /\ (pc = "from_base64" /\ buf \in MoreMaps \cup FewerMaps) => err
  /\ (/\ pc = "serialized"
      /\ ~PSBT_serialize_counts(
            psbt2,
            from_binary_CTransaction(Get(psbt2.g, PSBT_GLOBAL_UNSIGNED_TX).b, <<>>).tx))
       => (err /\ out = <<>>)

\* C7's case: a PSBT over MaxIn inputs and one output was decoded from base64.
C7_Witness ==
  /\ pc = "from_base64"
  /\ ~err
  /\ Len(psbt2.i) = MaxIn
  /\ Len(psbt2.o) = 1

\* C8: PSBT.deserialize (directly or through from_base64) raises when the
\* first five bytes are not the magic, fewer than five bytes included, and
\* when the global map read after the magic has no key 0; a PSBT it returns
\* has key 0 and the transaction decoded from it.
C8_RejectsBadMagicAndMissingTx ==
  pc \in {"psbt_deserialize", "from_base64"}
    => /\ SubSeq(buf, 1, Min(Len(buf), 5)) # Magic => err
       /\ (\E r \in {PSBTMap_deserialize([b |-> buf, pos |-> Min(Len(buf), 5)])} :
             r.ok /\ ~Has(r.v, PSBT_GLOBAL_UNSIGNED_TX)) => err
       /\ ~err => /\ Has(psbt2.g, PSBT_GLOBAL_UNSIGNED_TX)
                  /\ psbt2.tx # NoneObject

\* C8's case: the magic is right, the global map lacks key 0, the call raised.
C8_Witness ==
  /\ pc = "psbt_deserialize"
  /\ buf \in NoUnsignedTx
  /\ SubSeq(buf, 1, 5) = Magic
  /\ err

\* the length prefix read at position p of the buffer declares more bytes
\* than the buffer has left
DeclaresTooMuch(p) ==
  \E r \in {deser_compact_size([b |-> buf, pos |-> p])} :
    r.ok /\ IntOf(r.v) > Len(buf) - r.f.pos

\* C9 (as claimed): decoding raises when the buffer ends inside a VarInt
\* body, inside a fixed-width integer, or before the declared length of a
\* length-prefixed string (a TxOut's scriptPubKey included).
C9_TruncationRaises ==
  /\ (/\ pc = "compact_size"
      /\ Len(buf) >= 1
      /\ buf[1] \in {253, 254, 255}
      /\ Len(buf) < 1 + (CASE buf[1] = 253 -> 2 [] buf[1] = 254 -> 4 [] buf[1] = 255 -> 8))
       => err
  /\ (pc = "tx_deserialize" /\ Len(buf) < 4) => err
  /\ (pc = "txout" /\ Len(buf) < 8) => err
  /\ (pc = "string" /\ DeclaresTooMuch(0)) => err
  /\ (pc = "txout" /\ Len(buf) >= 8 /\ DeclaresTooMuch(8)) => err

\* C10 (as claimed): CTransaction.deserialize raises on a buffer whose input
\* count is 0 and whose next byte, the flag, is 0.
C10_FlagZeroRaises ==
  (pc = "tx_deserialize" /\ Len(buf) >= 6 /\ buf[5] = 0 /\ buf[6] = 0) => err

\* ------------------------------------- SpecPsbt: PSBT base64 round trip
\* The caller holds a PSBT, encodes it with to_base64, decodes the text with
\* PSBT.from_base64 and encodes the result again.

PsbtInit ==
  /\ pc = "start"
  /\ psbt \in PsbtObjects
  /\ psbt2 = NoneObject
  /\ tx = CTransaction
  /\ tx2 = CTransaction
  /\ shared = <<>>
  /\ buf = <<>>
  /\ out = <<>>
  /\ ret = NoRet
  /\ err = FALSE
  /\ frame = <<>>
  /\ tailable = NoneObject

\* buf = psbt.to_base64()
PsbtToBase64 ==
  /\ pc = "start"
  /\ \E r \in {to_base64(psbt, shared)} :
       /\ buf' = r.r
       /\ shared' = r.D
       /\ err' = ~r.ok
  /\ pc' = "encoded"
  /\ UNCHANGED <<tx, tx2, out, ret, psbt, psbt2, frame, tailable>>

\* psbt2 = PSBT.from_base64(buf)
PsbtFromBase64 ==
  /\ pc = "encoded"
  /\ ~err
  /\ \E r \in {from_base64(buf, shared)} :
       /\ psbt2' = IF r.ok THEN r.v ELSE NoneObject
       /\ shared' = r.D
       /\ err' = ~r.ok
  /\ pc' = "decoded"
  /\ UNCHANGED <<tx, tx2, buf, out, ret, psbt, frame, tailable>>

\* out = psbt2.to_base64()
PsbtToBase64Again ==
  /\ pc = "decoded"
  /\ ~err
  /\ \E r \in {to_base64(psbt2, shared)} :
       /\ out' = r.r
       /\ shared' = r.D
       /\ err' = ~r.ok
  /\ pc' = "reencoded"
  /\ UNCHANGED <<tx, tx2, buf, ret, psbt, psbt2, frame, tailable>>

PsbtNext ==
  \/ PsbtToBase64
  \/ PsbtFromBase64
  \/ PsbtToBase64Again

SpecPsbt == PsbtInit /\ [][PsbtNext]_vars

\* the items of a dict, whatever their order: key, kind of value, bytes, and
\* for a dict value its own items
ItemsOf(m) ==
  { <<m[j][1], m[j][2].kind, m[j][2].b,
      {m[j][2].d[k] : k \in 1..Len(m[j][2].d)}>> : j \in 1..Len(m) }

\* C1: a PSBT over a transaction with at least one input, encoded with
\* to_base64 and decoded with from_base64, comes back with the same global
\* map, the same unsigned transaction and the same input and output maps in
\* the same order; encoding the result again gives the same text.
C1_Base64RoundTrip ==
  (pc \in {"decoded", "reencoded"} /\ Len(psbt.tx.vin) >= 1)
    => /\ ~err
       /\ ItemsOf(psbt2.g) = ItemsOf(psbt.g)
       /\ psbt2.tx = psbt.tx
       /\ Len(psbt2.i) = Len(psbt.i)
       /\ \A k \in 1..Len(psbt.i) : ItemsOf(psbt2.i[k]) = ItemsOf(psbt.i[k])
       /\ Len(psbt2.o) = Len(psbt.o)
       /\ \A k \in 1..Len(psbt.o) : ItemsOf(psbt2.o[k]) = ItemsOf(psbt.o[k])
       /\ (pc = "reencoded" => out = buf)

\* C1's case: a PSBT with MaxIn inputs, keyed entries in an input map and an
\* output map was encoded, decoded and encoded again.
C1_Witness ==
  /\ pc = "reencoded"
  /\ ~err
  /\ Len(psbt.i) = MaxIn
  /\ Has(psbt.i[MaxIn], PSBT_IN_PARTIAL_SIG)
  /\ Len(psbt.o) >= 1
  /\ Has(psbt.g, PSBT_GLOBAL_XPUB)
  /\ Len(out) > 0

\* ------------------------------------------- SpecSig: the signature hash
\* The signer holds a decoded PSBT and computes the digest to sign for one
\* of its inputs.

ScriptCodes == { <<81>>, <<82, 33, 174>> }

SigInit ==
  /\ pc = "start"
  /\ psbt \in PsbtObjects
  /\ psbt2 = NoneObject
  /\ tx = CTransaction
  /\ tx2 = CTransaction
  /\ shared = <<>>
  /\ buf = <<>>
  /\ out = <<>>
  /\ ret = NoRet
  /\ err = FALSE
  /\ frame = <<>>
  /\ tailable = NoneObject

\* ret = sighash_all_witness(script_code, psbt, i, acp)
SigSighash ==
  /\ pc = "start"
  /\ \E script_code \in ScriptCodes, i \in 0..(Len(psbt.i) - 1), acp \in BOOLEAN :
       \E c \in {sighash_all_witness_call(script_code, psbt, i, acp)} :
         /\ ret' = Ret("sighash_all_witness",
                       [script_code |-> script_code, i |-> i, acp |-> acp], c.r.v)
         /\ err' = ~c.r.ok
         /\ psbt' = c.psbt
  /\ pc' = "sighash"
  /\ UNCHANGED <<tx, tx2, shared, buf, out, psbt2, frame, tailable>>

\* out = sighash_all_witness(script_code, psbt, i, acp), the same arguments again
SigSighashAgain ==
  /\ pc = "sighash"
  /\ \E c \in {sighash_all_witness_call(ret.arg.script_code, psbt, ret.arg.i,
                                        ret.arg.acp)} :
       /\ out' = c.r.v
       /\ err' = ~c.r.ok
       /\ psbt' = c.psbt
  /\ pc' = "sighash2"
  /\ UNCHANGED <<tx, tx2, shared, buf, ret, psbt2, frame, tailable>>

SigNext ==
  \/ SigSighash
  \/ SigSighashAgain

SpecSig == SigInit /\ [][SigNext]_vars

\* the 36 bytes of an outpoint: the 32-byte hash then the 4-byte index
OutpointBytes(o) == pack(o.hash, 32) \o pack(o.n, 4)

\* C4: the digest is the double SHA-256 of version (4 bytes LE), hash_prevouts,
\* hash_sequences, the outpoint of input i, the length-prefixed script code,
\* the amount (8 bytes LE) of the witness UTXO of input map i, the sequence
\* of input i, hash_outputs, the locktime and the sighash type (1, or 0x81
\* with anyone-can-pay); hash_prevouts and hash_sequences are the double
\* SHA-256 of all outpoints and of all sequences, or 32 zero bytes with
\* anyone-can-pay; hash_outputs is the double SHA-256 of all outputs in order.
C4_SighashPreimage ==
  pc = "sighash"
    => /\ err = ~Has(psbt.i[ret.arg.i + 1], PSBT_IN_WITNESS_UTXO)
       /\ ~err =>
            ret.v = hash256(
              pack(psbt.tx.nVersion, 4)
                \o (IF ret.arg.acp THEN Zeros(32)
                    ELSE hash256(Concat([j \in 1..Len(psbt.tx.vin) |->
                           OutpointBytes(psbt.tx.vin[j].prevout)])))
                \o (IF ret.arg.acp THEN Zeros(32)
                    ELSE hash256(Concat([j \in 1..Len(psbt.tx.vin) |->
                           pack(psbt.tx.vin[j].nSequence, 4)])))
                \o OutpointBytes(psbt.tx.vin[ret.arg.i + 1].prevout)
                \o <<Len(ret.arg.script_code)>> \o ret.arg.script_code
                \o pack(<<16 * (ret.arg.i + 1), 39>>, 8)
                \o pack(psbt.tx.vin[ret.arg.i + 1].nSequence, 4)
                \o hash256(Concat([j \in 1..Len(psbt.tx.vout) |->
                      pack(psbt.tx.vout[j].nValue, 8)
                        \o <<Len(psbt.tx.vout[j].scriptPubKey)>>
                        \o psbt.tx.vout[j].scriptPubKey]))
                \o pack(psbt.tx.nLockTime, 4)
                \o pack(IF ret.arg.acp THEN <<129>> ELSE <<1>>, 4))

\* C4's case: the digest of the last of MaxIn inputs, each with its own
\* witness UTXO, over MaxOut outputs, without anyone-can-pay.
C4_Witness ==
  /\ pc = "sighash"
  /\ ~err
  /\ ret.arg.i = MaxIn - 1
  /\ ~ret.arg.acp
  /\ Len(psbt.tx.vout) = MaxOut
  /\ Has(psbt.i[1], PSBT_IN_WITNESS_UTXO)

\* -------------------------------------- SpecLife: a PSBT in a test's hands
\* A test decodes the PSBT lianad returned, then asks for its txid, edits an
\* output, rehashes, has the signer sign it, has lianad finalize it, encodes
\* it, and serializes the transaction for broadcast, in any order.

\* privkey.sign(sighash, hasher=None) + b"\x01" for key k, abstracted: a
\* fixed function of the key and of the digest
Sig(k, sighash) == <<48, k>> \o SubSeq(sighash, 1, 2) \o <<1>>

\* psbt_in.map[PSBT_IN_PARTIAL_SIG][pubkey] = sig, creating the dict if absent
AddPartialSig(m, pubkey, sig) ==
  IF ~Has(m, PSBT_IN_PARTIAL_SIG)
  THEN Put(m, PSBT_IN_PARTIAL_SIG, SubMap(<< <<pubkey, sig>> >>))
  ELSE Put(m, PSBT_IN_PARTIAL_SIG,
           SubMap(Put(Get(m, PSBT_IN_PARTIAL_SIG).d, pubkey, sig)))

RECURSIVE sign_input(_, _, _, _)
\* the loop "for hd in hds" of sign_psbt_wsh on input i (from 0), at key j
sign_input(p, i, hds, j) ==
  IF j > Len(hds) THEN [ok |-> TRUE, p |-> p]
  ELSE With(sighash_all_witness(Get(p.i[i + 1], PSBT_IN_WITNESS_SCRIPT).b, p, i, FALSE),
            LAMBDA h :
         IF ~h.ok THEN [ok |-> FALSE, p |-> p]
         ELSE IF ~Has(Get(p.i[i + 1], PSBT_IN_BIP32_DERIVATION).d, PubKey(hds[j]))
         THEN [ok |-> FALSE, p |-> p]
         ELSE sign_input(
                [p EXCEPT !.i[i + 1] = AddPartialSig(@, PubKey(hds[j]), Sig(hds[j], h.v))],
                i, hds, j + 1))

RECURSIVE sign_psbt_wsh(_, _, _)
\* sign_psbt_wsh(psbt, hds) from input i on: the PSBT after the call, ok = FALSE
\* when it raised (the inputs signed before stay signed)
sign_psbt_wsh(p, hds, i) ==
  IF i >= Len(p.i) THEN [ok |-> TRUE, p |-> p]
  ELSE IF ~Has(p.i[i + 1], PSBT_IN_BIP32_DERIVATION)
          \/ ~Has(p.i[i + 1], PSBT_IN_WITNESS_SCRIPT)
  THEN [ok |-> FALSE, p |-> p]
  ELSE With(sign_input(p, i, hds, 1), LAMBDA r :
         IF ~r.ok THEN r ELSE sign_psbt_wsh(r.p, hds, i + 1))

\* desc.satisfy(sat_material), abstracted: the signatures then the script
Satisfy(sigs) == [j \in 1..Len(sigs) |-> sigs[j][2]] \o << <<81>> >>

RECURSIVE finalize_psbt(_, _)
\* finalize_psbt(psbt) from input i on: each input map gets its final script
\* witness, the same object being appended to psbt.tx.wit.vtxinwit
finalize_psbt(p, i) ==
  IF i >= Len(p.i) THEN [ok |-> TRUE, p |-> p]
  ELSE IF ~Has(p.i[i + 1], PSBT_IN_BIP32_DERIVATION)
          \/ ~Has(p.i[i + 1], PSBT_IN_PARTIAL_SIG)
  THEN [ok |-> FALSE, p |-> p]
  ELSE With(Satisfy(Get(p.i[i + 1], PSBT_IN_PARTIAL_SIG).d), LAMBDA stack :
         finalize_psbt(
           [p EXCEPT !.i[i + 1] = Put(@, PSBT_IN_FINAL_SCRIPTWITNESS, WitnessObject(stack)),
                     !.tx.wit = Append(@, CTxInWitness(stack))],
           i + 1))

\* what a test writes into psbt.tx.vout[0]
OutputEdits ==
  { [nValue |-> <<1, 38>>, scriptPubKey |-> <<0, 32, 42>>],
    [nValue |-> <<241, 38>>, scriptPubKey |-> <<0, 2, 1, 1>>] }

\* the keys a signer signs with
HdChoices == { <<1>>, <<2, 1>> }

\* some input map holds a signature
IsSigned(p) == \E k \in 1..Len(p.i) : Has(p.i[k], PSBT_IN_PARTIAL_SIG)

\* psbt = PSBT.from_base64(res["psbt"])
LifeInit ==
  /\ pc = "from_base64"
  /\ psbt \in { from_base64(b64encode(Wire(SamplePsbt(n, m))), <<>>).v :
                  n \in 1..MaxIn, m \in 1..MaxOut }
  /\ psbt2 = NoneObject
  /\ tx = CTransaction
  /\ tx2 = CTransaction
  /\ shared = <<>>
  /\ buf = <<>>
  /\ out = <<>>
  /\ ret = NoRet
  /\ err = FALSE
  /\ frame = <<>>
  /\ tailable = NoneObject

\* ret = psbt.tx.txid()
LifeTxid ==
  /\ \E r \in {txid(psbt.tx)} :
       /\ ret' = Ret("txid", <<>>, r.ret)
       /\ psbt' = [psbt EXCEPT !.tx = r.tx]
  /\ pc' = "txid"
  /\ err' = FALSE
  /\ out' = <<>>
  /\ UNCHANGED <<tx, tx2, shared, buf, psbt2, frame, tailable>>

\* psbt.tx.vout[0].scriptPubKey = ...; psbt.tx.vout[0].nValue = ...
\* (the tests edit the outputs of a PSBT that is not signed yet)
LifeSetOutput ==
  /\ ~IsSigned(psbt)
  /\ psbt.tx.wit = <<>>
  /\ \E o \in OutputEdits : psbt' = [psbt EXCEPT !.tx.vout[1] = o]
  /\ pc' = "set_output"
  /\ err' = FALSE
  /\ out' = <<>>
  /\ ret' = NoRet
  /\ UNCHANGED <<tx, tx2, shared, buf, psbt2, frame, tailable>>

\* psbt.tx.rehash()
LifeRehash ==
  /\ psbt' = [psbt EXCEPT !.tx = rehash(@)]
  /\ pc' = "rehash"
  /\ err' = FALSE
  /\ out' = <<>>
  /\ ret' = NoRet
  /\ UNCHANGED <<tx, tx2, shared, buf, psbt2, frame, tailable>>

\* psbt = sign_psbt_wsh(psbt, hds) (a PSBT is signed before it is finalized)
LifeSign ==
  /\ psbt.tx.wit = <<>>
  /\ \E hds \in HdChoices :
       \E r \in {sign_psbt_wsh(psbt, hds, 0)} :
         /\ psbt' = r.p
         /\ err' = ~r.ok
  /\ pc' = "sign_psbt"
  /\ out' = <<>>
  /\ ret' = NoRet
  /\ UNCHANGED <<tx, tx2, shared, buf, psbt2, frame, tailable>>

\* psbt = lianad.finalize_psbt(psbt) (once per PSBT)
LifeFinalize ==
  /\ psbt.tx.wit = <<>>
  /\ \E r \in {finalize_psbt(psbt, 0)} :
       /\ psbt' = r.p
       /\ err' = ~r.ok
  /\ pc' = "finalize_psbt"
  /\ out' = <<>>
  /\ ret' = NoRet
  /\ UNCHANGED <<tx, tx2, shared, buf, psbt2, frame, tailable>>

\* out = psbt.to_base64()
LifeToBase64 ==
  /\ \E r \in {to_base64(psbt, shared)} :
       /\ out' = r.r
       /\ shared' = r.D
       /\ err' = ~r.ok
  /\ pc' = "to_base64"
  /\ ret' = NoRet
  /\ UNCHANGED <<tx, tx2, buf, psbt, psbt2, frame, tailable>>

\* out = psbt.tx.serialize_with_witness()
LifeSerializeWithWitness ==
  /\ \E r \in {serialize_with_witness(psbt.tx, shared)} :
       /\ out' = r.r
       /\ psbt' = [psbt EXCEPT !.tx = r.tx]
  /\ pc' = "serialize_with_witness"
  /\ err' = FALSE
  /\ ret' = NoRet
  /\ UNCHANGED <<tx, tx2, shared, buf, psbt2, frame, tailable>>

LifeNext ==
  \/ LifeTxid
  \/ LifeSetOutput
  \/ LifeRehash
  \/ LifeSign
  \/ LifeFinalize
  \/ LifeToBase64
  \/ LifeSerializeWithWitness

SpecLife == LifeInit /\ [][LifeNext]_vars

\* the byte-reversed double SHA-256 of the serialization without witness
ReversedHash(t) == Reverse(hash256(serialize_without_witness(t)))

\* C5: txid() of a transaction whose hash is not cached is the byte-reversed
\* double SHA-256 of serialize_without_witness(), whatever its witness: the
\* same transaction without its witness has the same txid, and a step of the
\* signer or of the finalizer leaves txid() as it was.
C5_TxidIgnoresWitness ==
  /\ [](/\ txid([psbt.tx EXCEPT !.sha256 = None]).ret = ReversedHash(psbt.tx)
        /\ txid([psbt.tx EXCEPT !.sha256 = None]).ret
             = txid([psbt.tx EXCEPT !.sha256 = None, !.wit = <<>>]).ret)
  /\ [][pc' \in {"sign_psbt", "finalize_psbt"}
          => txid(psbt'.tx).ret = txid(psbt.tx).ret]_vars

\* C5's case: txid() was called on a signed and finalized PSBT whose
\* transaction carries one witness stack per input.
C5_Witness ==
  /\ pc = "txid"
  /\ IsSigned(psbt)
  /\ Len(psbt.tx.wit) = MaxIn
  /\ ~CTxWitness_is_null(psbt.tx.wit, shared)
  /\ ret.v = ReversedHash(psbt.tx)

\* C6: the first txid() caches the hash; while it is cached, editing an output
\* leaves txid() as it was and txid() returns the cached value; only rehash()
\* replaces a cached hash, and after rehash() txid() is the byte-reversed
\* double SHA-256 of the current serialization without witness.
C6_TxidCached ==
  [][/\ (pc' = "set_output" /\ psbt.tx.sha256 # None)
          => txid(psbt'.tx).ret = txid(psbt.tx).ret
     /\ pc' = "txid"
          => /\ psbt'.tx.sha256 # None
             /\ ret'.v = IF psbt.tx.sha256 # None
                         THEN Reverse(ser_uint256(psbt.tx.sha256))
                         ELSE ReversedHash(psbt.tx)
     /\ (pc' # "rehash" /\ psbt.tx.sha256 # None)
          => psbt'.tx.sha256 = psbt.tx.sha256
     /\ pc' = "rehash" => txid(psbt'.tx).ret = ReversedHash(psbt'.tx)]_vars

\* C6's case: after an edit without rehash(), txid() returned a value that is
\* not the hash of the transaction as it is now.
C6_Witness ==
  /\ pc = "txid"
  /\ ret.v # ReversedHash(psbt.tx)
  /\ psbt.tx.vout[1] \in OutputEdits

\* --------------------------------- SpecWit: serializing with a witness list
\* The caller builds a transaction whose witness list may be shorter or
\* longer than its input list, possibly after another transaction was decoded
\* in the same process, and serializes it with witness twice in a row.

\* what the process decoded earlier: a transaction with a witness, one without
OtherBuffers ==
  { serialize_with_witness(
      [CTransaction EXCEPT !.vin = vin, !.wit = << CTxInWitness(<< <<7>> >>) >>],
      <<>>).r : vin \in [1..1 -> TxInChoices] }
  \cup { serialize_without_witness(
           [CTransaction EXCEPT !.vin = vin]) : vin \in [1..1 -> TxInChoices] }

WitInit ==
  /\ pc = "start"
  /\ tx \in Transactions
  /\ tx2 = CTransaction
  /\ shared = <<>>
  /\ buf = <<>>
  /\ out = <<>>
  /\ ret = NoRet
  /\ err = FALSE
  /\ frame = <<>>
  /\ tailable = NoneObject
  /\ psbt = NoneObject
  /\ psbt2 = NoneObject

\* tx2 = CTransaction(); tx2.deserialize(BytesIO(b))
WitDecodeOther ==
  /\ pc = "start"
  /\ \E b \in OtherBuffers :
       \E r \in {CTransaction_deserialize(tx2, BytesIO(b), shared)} :
         /\ tx2' = r.tx
         /\ shared' = r.D
         /\ err' = ~r.ok
  /\ pc' = "decoded"
  /\ UNCHANGED <<tx, buf, out, ret, psbt, psbt2, frame, tailable>>

\* buf = tx.serialize_with_witness(); ret keeps the transaction as it was
WitSerialize ==
  /\ pc \in {"start", "decoded"}
  /\ \E r \in {serialize_with_witness(tx, shared)} :
         /\ buf' = r.r
         /\ tx' = r.tx
         /\ ret' = Ret("serialize_with_witness", tx, r.r)
  /\ pc' = "ser1"
  /\ UNCHANGED <<tx2, shared, out, err, psbt, psbt2, frame, tailable>>

\* out = tx.serialize_with_witness(), directly after the first call
WitSerializeAgain ==
  /\ pc = "ser1"
  /\ \E r \in {serialize_with_witness(tx, shared)} :
         /\ out' = r.r
         /\ tx' = r.tx
  /\ pc' = "ser2"
  /\ UNCHANGED <<tx2, shared, buf, ret, err, psbt, psbt2, frame, tailable>>

WitNext ==
  \/ WitDecodeOther
  \/ WitSerialize
  \/ WitSerializeAgain

SpecWit == WitInit /\ [][WitNext]_vars

\* C11 (as claimed): after serialize_with_witness on a transaction with a
\* non-null witness whose witness list length differs from the input count,
\* the list has one entry per input, the entries that were there are the
\* first ones kept, and every padded entry serializes as a zero item count,
\* whatever was done before the call.
C11_TruncatesOrPads ==
  (/\ pc = "ser1"
   /\ ~CTxWitness_is_null(ret.arg.wit, shared)
   /\ Len(ret.arg.wit) # Len(ret.arg.vin))
    => /\ Len(tx.wit) = Len(ret.arg.vin)
       /\ \A i \in 1..Len(tx.wit) :
            IF i <= Len(ret.arg.wit)
            THEN tx.wit[i] = ret.arg.wit[i]
            ELSE CTxInWitness_serialize(tx.wit[i], shared) = <<0>>

\* C12: serialize_with_witness on a transaction whose witness is non-null
\* returns version (4 bytes LE), 0x00, 0x01, the counted inputs, the counted
\* outputs, one witness stack per input without a count before the list, and
\* the locktime (4 bytes LE); on a transaction whose witness stacks are all
\* empty, or whose witness list is empty, it returns the bytes of
\* serialize_without_witness().
C12_WitnessFormat ==
  pc = "ser1" =>
    buf = IF CTxWitness_is_null(ret.arg.wit, shared)
          THEN serialize_without_witness(ret.arg)
          ELSE pack(ret.arg.nVersion, 4) \o <<0, 1>>
                 \o ser_compact_size(NumOf(Len(ret.arg.vin)))
                 \o Concat([i \in 1..Len(ret.arg.vin) |-> CTxIn_serialize(ret.arg.vin[i])])
                 \o ser_compact_size(NumOf(Len(ret.arg.vout)))
                 \o Concat([i \in 1..Len(ret.arg.vout) |-> CTxOut_serialize(ret.arg.vout[i])])
                 \o Concat([i \in 1..Len(ret.arg.vin) |->
                              ser_string_vector(WitStack(tx, i, shared))])
                 \o pack(ret.arg.nLockTime, 4)

\* C12's case: a transaction with MaxIn inputs, each with a non-empty witness
\* stack, was serialized with witness, and the bytes are not those of
\* serialize_without_witness().
C12_Witness ==
  /\ pc = "ser1"
  /\ Len(tx.vin) = MaxIn
  /\ Len(ret.arg.wit) = MaxIn
  /\ \A i \in 1..MaxIn : StackOf(tx.wit[i], shared) # <<>>
  /\ buf # serialize_without_witness(tx)

\* C20 (as claimed): two calls of serialize_with_witness in a row on the same
\* transaction return the same bytes, for every witness list.
C20_SerializeTwice ==
  pc = "ser2" => out = buf

\* ------------------------------------------------- SpecMap: one keyed map
\* A writer puts (key, value) entries on the wire in some order, ends them
\* with the zero-length key and may append more bytes; the reader decodes the
\* map with PSBTMap.deserialize and serializes what it decoded.

MaxEntries == 3

\* keys on the wire: two key types without key data, one with two key data
WireKeys == { <<6>>, <<2>>, <<2, 17>>, <<2, 18>> }
WireValues == { <<>>, <<9>> }

\* the entries the writer sends, in its order
EntryLists == SeqsUpTo(WireKeys \X WireValues, MaxEntries)

\* the bytes of the entries followed by the terminator
EncodeEntries(es) ==
  Concat([j \in 1..Len(es) |-> ser_string(es[j][1]) \o ser_string(es[j][2])])
    \o <<0>>

MapInit ==
  /\ pc = "start"
  /\ \E es \in EntryLists, rest \in {<<>>, <<1, 0>>} :
       /\ ret = Ret("entries", [es |-> es, rest |-> rest], <<>>)
       /\ buf = EncodeEntries(es) \o rest
  /\ tx = CTransaction
  /\ tx2 = CTransaction
  /\ shared = <<>>
  /\ out = <<>>
  /\ err = FALSE
  /\ frame = <<>>
  /\ tailable = NoneObject
  /\ psbt = NoneObject
  /\ psbt2 = NoneObject

\* f = BytesIO(buf); m = PSBTMap(); m.deserialize(f): psbt keeps m.map and
\* f.tell()
MapDeserialize ==
  /\ pc = "start"
  /\ \E r \in {PSBTMap_deserialize(BytesIO(buf))} :
       /\ err' = ~r.ok
       /\ psbt' = IF r.ok THEN [map |-> r.v, pos |-> r.f.pos] ELSE NoneObject
  /\ pc' = "deserialized"
  /\ UNCHANGED <<tx, tx2, shared, buf, out, ret, psbt2, frame, tailable>>

\* out = m.serialize()
MapSerialize ==
  /\ pc = "deserialized"
  /\ ~err
  /\ \E r \in {PSBTMap_serialize(psbt.map)} :
       /\ r.ok
       /\ out' = r.r
  /\ pc' = "serialized"
  /\ UNCHANGED <<tx, tx2, shared, buf, ret, err, psbt, psbt2, frame, tailable>>

MapNext ==
  \/ MapDeserialize
  \/ MapSerialize

SpecMap == MapInit /\ [][MapNext]_vars

RECURSIVE FlatEntries(_, _)
\* the (key, value) pairs read from the stream f up to a zero-length key,
\* after the pairs acc
FlatEntries(f, acc) ==
  Then(deser_string(f), LAMBDA rk :
    IF Len(rk.v) = 0 THEN Ok(acc, rk.f)
    ELSE Then(deser_string(rk.f), LAMBDA rv :
           FlatEntries(rv.f, Append(acc, <<rk.v, rv.v>>))))

\* the (type_byte ++ key_data, value) pairs of the dict m
PairsOf(m) ==
  UNION { IF m[j][2].kind = "dict"
          THEN { << <<m[j][1]>> \o m[j][2].d[k][1], m[j][2].d[k][2] >> :
                   k \in 1..Len(m[j][2].d) }
          ELSE { << <<m[j][1]>>, m[j][2].b >> } : j \in 1..Len(m) }

\* the entry es[j] is in the dict m: a 1-byte key k as m[k] = value, a longer
\* key as m[key[0]][key[1:]] = value
EntryPresent(m, e) ==
  /\ Has(m, e[1][1])
  /\ IF Len(e[1]) = 1
     THEN Get(m, e[1][1]) = Scalar(e[2])
     ELSE /\ Get(m, e[1][1]).kind = "dict"
          /\ Has(Get(m, e[1][1]).d, Tail(e[1]))
          /\ Get(Get(m, e[1][1]).d, Tail(e[1])) = e[2]

\* C13: the bytes PSBTMap.serialize returns are (key, value) pairs followed
\* by one zero-length key as the last byte; the pairs come in ascending
\* key-type order whatever the insertion order of the map, and they are the
\* (type_byte ++ key_data, value) pairs of the map, each once.
C13_SerializeSorted ==
  pc = "serialized" =>
    \E e \in {FlatEntries(BytesIO(out), <<>>)} :
      /\ e.ok
      /\ e.f.pos = Len(out)
      /\ out[Len(out)] = 0
      /\ \A j, k \in 1..Len(e.v) : j < k => e.v[j][1][1] <= e.v[k][1][1]
      /\ {e.v[j] : j \in 1..Len(e.v)} = PairsOf(psbt.map)
      /\ Len(e.v) = Cardinality(PairsOf(psbt.map))

\* C13's case: a map with key type 6 inserted before key type 2, and two key
\* data under type 2, was serialized.
C13_Witness ==
  /\ pc = "serialized"
  /\ Len(psbt.map) = 2
  /\ psbt.map[1][1] = 6
  /\ psbt.map[2][1] = 2
  /\ Len(psbt.map[2][2].d) = 2
  /\ out[2] = 2

\* C14: PSBTMap.deserialize on entries with distinct keys, no key type used
\* both with and without key data, stops right after the zero-length key,
\* and the decoded map holds every entry (a 1-byte key k as map[k] = value, a
\* longer key as map[key[0]][key[1:]] = value) and nothing else.
C14_DeserializeEntries ==
  (/\ pc = "deserialized"
   /\ \A j, k \in 1..Len(ret.arg.es) :
        j # k => /\ ret.arg.es[j][1] # ret.arg.es[k][1]
                 /\ (Len(ret.arg.es[j][1]) = 1
                       => ret.arg.es[k][1][1] # ret.arg.es[j][1][1]))
    => /\ ~err
       /\ psbt.pos = Len(buf) - Len(ret.arg.rest)
       /\ \A j \in 1..Len(ret.arg.es) : EntryPresent(psbt.map, ret.arg.es[j])
       /\ PairsOf(psbt.map) = {ret.arg.es[j] : j \in 1..Len(ret.arg.es)}

\* C14's case: two entries of key type 2 with different key data and
\* different values, and bytes after the terminator, were decoded.
C14_Witness ==
  /\ pc = "deserialized"
  /\ ~err
  /\ ret.arg.rest # <<>>
  /\ Has(psbt.map, 2)
  /\ Get(psbt.map, 2).kind = "dict"
  /\ Get(psbt.map, 2).d = << << <<18>>, <<9>> >>, << <<17>>, <<>> >> >>

\* C15 (as claimed): when the decode of a keyed map succeeds, every entry of
\* the encoded map is in the decoded map, also when two entries carry the
\* same key or a type byte occurs with and without key data.
C15_NothingDropped ==
  (pc = "deserialized" /\ ~err)
    => \A j \in 1..Len(ret.arg.es) : EntryPresent(psbt.map, ret.arg.es[j])

\* ------------------------------------------------- SpecBlank: make_blank
\* A caller holding a decoded PSBT blanks it, keeps a copy, and blanks it
\* again.

\* make_blank leaving the global map as it is
make_blank_keep_global(self) ==
  [ok |-> Has(self.g, PSBT_GLOBAL_UNSIGNED_TX),
   v |-> [self EXCEPT !.i = [j \in 1..Len(self.i) |-> <<>>],
                      !.o = [j \in 1..Len(self.o) |-> <<>>]]]

\* self.make_blank(): every input and output map is cleared in place, then
\* self.g becomes a new map holding only key 0; ok = FALSE when self.g has no
\* key 0 (KeyError, raised after the maps were cleared)
make_blank(self) ==
  With([self EXCEPT !.i = [j \in 1..Len(self.i) |-> <<>>],
                    !.o = [j \in 1..Len(self.o) |-> <<>>]], LAMBDA s :
    IF Has(self.g, PSBT_GLOBAL_UNSIGNED_TX)
    THEN [ok |-> TRUE,
          v |-> [s EXCEPT !.g = << <<PSBT_GLOBAL_UNSIGNED_TX,
                                     Get(self.g, PSBT_GLOBAL_UNSIGNED_TX)>> >>]]
    ELSE [ok |-> FALSE, v |-> s])

BlankInit ==
  /\ pc = "start"
  /\ psbt \in PsbtObjects
  /\ psbt2 = NoneObject
  /\ tx = CTransaction
  /\ tx2 = CTransaction
  /\ shared = <<>>
  /\ buf = <<>>
  /\ out = <<>>
  /\ ret = NoRet
  /\ err = FALSE
  /\ frame = <<>>
  /\ tailable = NoneObject

\* psbt.make_blank(); ret keeps the PSBT as it was
BlankMakeBlank ==
  /\ pc = "start"
  /\ \E r \in {make_blank(psbt)} :
       /\ psbt' = r.v
       /\ err' = ~r.ok
  /\ ret' = Ret("make_blank", psbt, <<>>)
  /\ pc' = "blank"
  /\ UNCHANGED <<tx, tx2, shared, buf, out, psbt2, frame, tailable>>

\* psbt2 = copy.deepcopy(psbt); psbt.make_blank()
BlankMakeBlankAgain ==
  /\ pc = "blank"
  /\ ~err
  /\ psbt2' = psbt
  /\ \E r \in {make_blank(psbt)} :
       /\ psbt' = r.v
       /\ err' = ~r.ok
  /\ pc' = "blank2"
  /\ UNCHANGED <<tx, tx2, shared, buf, out, ret, frame, tailable>>

BlankNext ==
  \/ BlankMakeBlank
  \/ BlankMakeBlankAgain

SpecBlank == BlankInit /\ [][BlankNext]_vars

\* C16: after make_blank every input map and every output map is empty,
\* there are as many input and output maps as before, the global map holds
\* exactly key 0 with the unsigned-transaction bytes it had, and a second
\* make_blank changes nothing.
C16_MakeBlank ==
  /\ pc \in {"blank", "blank2"}
       => /\ ~err
          /\ Len(psbt.i) = Len(ret.arg.i)
          /\ Len(psbt.o) = Len(ret.arg.o)
          /\ \A j \in 1..Len(psbt.i) : psbt.i[j] = <<>>
          /\ \A j \in 1..Len(psbt.o) : psbt.o[j] = <<>>
          /\ Len(psbt.g) = 1
          /\ psbt.g[1][1] = 0
          /\ psbt.g[1][2] = Get(ret.arg.g, 0)
          /\ psbt.g[1][2].kind = "bytes"
  /\ pc = "blank2" => psbt = psbt2

\* C16's case: a PSBT with MaxIn filled input maps, a filled output map and
\* more than key 0 in its global map was blanked twice.
C16_Witness ==
  /\ pc = "blank2"
  /\ Len(ret.arg.i) = MaxIn
  /\ \A j \in 1..MaxIn : ret.arg.i[j] # <<>>
  /\ Len(ret.arg.o) >= 1
  /\ ret.arg.o[1] # <<>>
  /\ Len(ret.arg.g) > 1
  /\ psbt.i[MaxIn] = <<>>

\* ------------------------------------- sighash_all_witness: anyone-can-pay
\* and repeated calls (SpecSig)

\* C17: for the same script code, PSBT and input, the preimages without and
\* with anyone-can-pay have the same length and differ only in bytes 5..68
\* (hash_prevouts and hash_sequence, 64 zero bytes with anyone-can-pay) and in
\* the low byte of the sighash type (1 without, 129 with); version, outpoint,
\* script code, amount, sequence, hash_outputs, locktime and the three high
\* bytes of the sighash type are the same.
C17_AnyoneCanPay ==
  (pc = "sighash" /\ ~err) =>
    \E a \in {sighash_preimage(ret.arg.script_code, psbt, ret.arg.i, FALSE)},
       b \in {sighash_preimage(ret.arg.script_code, psbt, ret.arg.i, TRUE)} :
      /\ a.ok /\ b.ok
      /\ Len(a.v) = Len(b.v)
      /\ Len(a.v) = 156 + 1 + Len(ret.arg.script_code)
      /\ SubSeq(b.v, 5, 68) = Zeros(64)
      /\ a.v[Len(a.v) - 3] = 1
      /\ b.v[Len(b.v) - 3] = 129
      /\ \A k \in 1..Len(a.v) :
           (k \notin 5..68 /\ k # Len(a.v) - 3) => a.v[k] = b.v[k]
      /\ ret.v = hash256(IF ret.arg.acp THEN b.v ELSE a.v)

\* C17's case: a digest was computed with anyone-can-pay for a PSBT with
\* MaxIn inputs and an output, whose preimage without anyone-can-pay has
\* non-zero hash_prevouts and hash_sequence.
C17_Witness ==
  /\ pc = "sighash"
  /\ ~err
  /\ ret.arg.acp
  /\ Len(psbt.tx.vin) = MaxIn
  /\ Len(psbt.tx.vout) >= 1
  /\ SubSeq(sighash_preimage(ret.arg.script_code, psbt, ret.arg.i, FALSE).v, 5, 36)
       # Zeros(32)
  /\ SubSeq(sighash_preimage(ret.arg.script_code, psbt, ret.arg.i, FALSE).v, 37, 68)
       # Zeros(32)

\* C18: a second call of sighash_all_witness with the same script code, PSBT,
\* index and anyone-can-pay flag returns the same digest, of 32 bytes, and no
\* call changes the PSBT: its maps, its transaction's inputs, outputs and
\* witness, and its cached txid.
C18_SighashPure ==
  /\ [](pc = "sighash2" => (out = ret.v /\ (~err => Len(out) = 32)))
  /\ [][psbt' = psbt]_vars

\* C18's case: the digest of an input was computed twice on a PSBT with
\* MaxIn inputs whose txid is not cached.
C18_Witness ==
  /\ pc = "sighash2"
  /\ ~err
  /\ Len(out) = 32
  /\ Len(psbt.tx.vin) = MaxIn
  /\ psbt.tx.sha256 = None

\* --------------------------------- SpecConc: two decodes in one process
\* Two threads of one process each own a buffer and a fresh CTransaction and
\* run CTransaction.deserialize on them; the scheduler may switch threads
\* between any two statements of deserialize.  Thread 1 decodes into tx,
\* thread 2 into tx2; pc[t] is the statement thread t runs next, frame[t] its
\* locals.  The one object both threads can reach is the default
\* CScriptWitness, whose stack is `shared`.

Threads == {1, 2}

\* the transactions whose serialization a thread is given: 1..MaxIn inputs
\* with a non-empty witness stack each, or one input and no witness
ConcSources ==
  { [CTransaction EXCEPT
       !.vin = [i \in 1..Len(w) |->
                  [prevout |-> [hash |-> <<1>>, n |-> NumOf(i - 1)],
                   scriptSig |-> <<>>, nSequence |-> <<>>]],
       !.wit = [i \in 1..Len(w) |-> CTxInWitness(w[i])]] :
      w \in UNION {[1..n -> StackChoices \ {<<>>}] : n \in 1..MaxIn} }
  \cup { [CTransaction EXCEPT
            !.vin = << [prevout |-> [hash |-> <<1>>, n |-> <<>>],
                        scriptSig |-> <<>>, nSequence |-> <<>>] >>] }

\* the statements of deserialize up to self.vout = deser_vector(f, CTxOut)
deserialize_header(st) ==
  AndThen(deserialize_nVersion(st), LAMBDA s1 :
  AndThen(deserialize_vin(s1), LAMBDA s2 :
    IF Len(s2.tx.vin) = 0
    THEN AndThen(deserialize_flags(s2), LAMBDA s3 :
           IF s3.flags
           THEN AndThen(deserialize_vin(s3), LAMBDA s4 : deserialize_vout(s4))
           ELSE s3)
    ELSE deserialize_vout(s2)))

\* self.wit.vtxinwit = [CTxInWitness() for i in range(len(self.vin))]
deserialize_wit_list(st) ==
  [st EXCEPT !.tx.wit = [i \in 1..Len(st.tx.vin) |-> CTxInWitnessDefault]]

\* self.vtxinwit[i].deserialize(f), one round of CTxWitness.deserialize's
\* loop: self.scriptWitness.stack = deser_string_vector(f)
deserialize_wit_entry(st, i) ==
  Stmt(st, deser_string_vector(st.f), LAMBDA r :
    IF st.tx.wit[i].own
    THEN [st EXCEPT !.tx.wit[i].stack = r.v, !.f = r.f]
    ELSE [st EXCEPT !.D = r.v, !.f = r.f])

\* the CTransaction of thread t
TxOf(t) == IF t = 1 THEN tx ELSE tx2

\* the frame of a statement of thread t
FrameOf(t) ==
  [ok |-> TRUE, tx |-> TxOf(t), D |-> shared, f |-> frame[t].f,
   flags |-> frame[t].flags]

\* thread t has run a statement that left the frame st and goes on at next
ConcMove(t, st, i, next) ==
  /\ IF t = 1 THEN tx' = st.tx /\ tx2' = tx2 ELSE tx2' = st.tx /\ tx' = tx
  /\ shared' = st.D
  /\ frame' = [frame EXCEPT ![t] = [f |-> st.f, flags |-> st.flags, i |-> i]]
  /\ pc' = [pc EXCEPT ![t] = IF st.ok THEN next ELSE "raised"]
  /\ UNCHANGED <<buf, out, ret, err, psbt, psbt2, tailable>>

ConcInit ==
  /\ pc = <<"header", "header">>
  /\ tx = CTransaction
  /\ tx2 = CTransaction
  /\ shared = <<>>
  /\ \E s \in [Threads -> ConcSources] :
       /\ ret = Ret("sources", <<s[1], s[2]>>, <<>>)
       /\ frame = [t \in Threads |->
                     [f |-> BytesIO(serialize_with_witness(s[t], <<>>).r),
                      flags |-> FALSE, i |-> 0]]
  /\ tailable = NoneObject
  /\ buf = <<>>
  /\ out = <<>>
  /\ err = FALSE
  /\ psbt = NoneObject
  /\ psbt2 = NoneObject

\* nVersion, vin, flags, vout: the thread's own object and stream only
ConcHeader(t) ==
  /\ pc[t] = "header"
  /\ \E st \in {deserialize_header(FrameOf(t))} :
       ConcMove(t, st, 0, IF st.flags THEN "wit_list" ELSE "nLockTime")

ConcWitList(t) ==
  /\ pc[t] = "wit_list"
  /\ ConcMove(t, deserialize_wit_list(FrameOf(t)), 1, "wit_entry")

ConcWitEntry(t) ==
  /\ pc[t] = "wit_entry"
  /\ IF frame[t].i > Len(TxOf(t).wit)
     THEN ConcMove(t, FrameOf(t), frame[t].i, "nLockTime")
     ELSE \E st \in {deserialize_wit_entry(FrameOf(t), frame[t].i)} :
            ConcMove(t, st, frame[t].i + 1, "wit_entry")

ConcLockTime(t) ==
  /\ pc[t] = "nLockTime"
  /\ \E st \in {deserialize_nLockTime(FrameOf(t))} :
       ConcMove(t, st, frame[t].i, "done")

ConcHeaders == \E t \in Threads : ConcHeader(t)
ConcWitLists == \E t \in Threads : ConcWitList(t)
ConcWitEntries == \E t \in Threads : ConcWitEntry(t)
ConcLockTimes == \E t \in Threads : ConcLockTime(t)

ConcNext ==
  \/ ConcHeaders
  \/ ConcWitLists
  \/ ConcWitEntries
  \/ ConcLockTimes

SpecConc == ConcInit /\ [][ConcNext]_vars

\* what a caller reads from transaction t: its fields and the witness stack
\* of each entry of its witness list
ContentsOf(t, D) ==
  [nVersion |-> t.nVersion, vin |-> t.vin, vout |-> t.vout,
   nLockTime |-> t.nLockTime,
   stacks |-> [i \in 1..Len(t.wit) |-> StackOf(t.wit[i], D)]]

\* C19 (as claimed): under every interleaving of two decodes on their own
\* buffers and their own CTransaction objects, once both are done each
\* transaction has the inputs and the witness stacks encoded in its own
\* buffer, and a statement of one decode leaves the contents of the other
\* thread's transaction as they were.
C19_IndependentDecodes ==
  /\ [](pc = <<"done", "done">> =>
          \A t \in Threads :
            /\ TxOf(t).vin = ret.arg[t].vin
            /\ SameWitness(TxOf(t), ret.arg[t], shared))
  /\ [][/\ pc'[1] # pc[1] => ContentsOf(tx2', shared') = ContentsOf(tx2, shared)
        /\ pc'[2] # pc[2] => ContentsOf(tx', shared') = ContentsOf(tx, shared)]_vars

\* ------------------------------------------- SpecVarInt: compact sizes
\* A caller encodes an unsigned 64-bit integer with ser_compact_size, puts the
\* bytes in front of other bytes and decodes them with deser_compact_size.

\* the integers encoded: every one-byte value, and for each width of 2..8
\* bytes the values whose low byte is 0 or 255, whose middle bytes are all 0
\* or all 255 and whose top byte is 1 or 255 (65535, 65536, 2^32 - 1, 2^32
\* and 2^64 - 1 among them)
VarInts ==
  {NumOf(k) : k \in 0..255}
    \cup { <<lo>> \o [i \in 1..(w - 2) |-> mid] \o <<hi>> :
             w \in 2..8, lo \in {0, 255}, mid \in {0, 255}, hi \in {1, 255} }

VarIntInit ==
  /\ pc = "start"
  /\ \E n \in VarInts, rest \in {<<>>, <<253, 7>>} :
       ret = Ret("n", [n |-> n, rest |-> rest, pos |-> 0], <<>>)
  /\ tx = CTransaction
  /\ tx2 = CTransaction
  /\ shared = <<>>
  /\ buf = <<>>
  /\ out = <<>>
  /\ err = FALSE
  /\ frame = <<>>
  /\ tailable = NoneObject
  /\ psbt = NoneObject
  /\ psbt2 = NoneObject

\* out = ser_compact_size(n); buf = out + rest
VarIntEncode ==
  /\ pc = "start"
  /\ out' = ser_compact_size(ret.arg.n)
  /\ buf' = out' \o ret.arg.rest
  /\ pc' = "encoded"
  /\ UNCHANGED <<tx, tx2, shared, ret, err, psbt, psbt2, frame, tailable>>

\* f = BytesIO(buf); ret = deser_compact_size(f), with f.tell()
VarIntDecode ==
  /\ pc = "encoded"
  /\ \E r \in {deser_compact_size(BytesIO(buf))} :
       /\ ret' = Ret("deser_compact_size", [ret.arg EXCEPT !.pos = r.f.pos], r.v)
       /\ err' = ~r.ok
  /\ pc' = "decoded"
  /\ UNCHANGED <<tx, tx2, shared, buf, out, psbt, psbt2, frame, tailable>>

VarIntNext ==
  \/ VarIntEncode
  \/ VarIntDecode

SpecVarInt == VarIntInit /\ [][VarIntNext]_vars

\* C21: decoding the compact size of an unsigned 64-bit n gives n and reads
\* exactly the bytes that encode it; the encoding is n on 1 byte when
\* n < 253, 0xFD and n on 2 bytes when n < 0x10000, 0xFE and n on 4 bytes
\* when n < 0x100000000, 0xFF and n on 8 bytes above.
C21_VarIntInverse ==
  pc = "decoded" =>
    /\ ~err
    /\ ret.v = ret.arg.n
    /\ ret.arg.pos = Len(out)
    /\ IF Len(ret.arg.n) = 0 \/ (Len(ret.arg.n) = 1 /\ ret.arg.n[1] < 253)
       THEN out = ret.arg.n \o Zeros(1 - Len(ret.arg.n))
       ELSE IF Len(ret.arg.n) <= 2
       THEN out = <<253>> \o ret.arg.n \o Zeros(2 - Len(ret.arg.n))
       ELSE IF Len(ret.arg.n) <= 4
       THEN out = <<254>> \o ret.arg.n \o Zeros(4 - Len(ret.arg.n))
       ELSE out = <<255>> \o ret.arg.n \o Zeros(8 - Len(ret.arg.n))
    /\ Len(out) \in {1, 3, 5, 9}

\* C21's case: 2^64 - 1 was encoded on nine bytes in front of other bytes
\* and decoded.
C21_Witness ==
  /\ pc = "decoded"
  /\ ret.v = [i \in 1..8 |-> 255]
  /\ ret.arg.pos = 9
  /\ Len(buf) = 11

\* --------------------------------------- SpecSize: a one-input transaction
\* A caller builds a transaction with one input spending output 0 of the
\* all-zero txid and one output, and serializes it without witness.

MaxScriptLen == 22

SizeTransactions ==
  { [CTransaction EXCEPT
       !.nVersion = <<v>>,
       !.vin = << [prevout |-> [hash |-> <<>>, n |-> <<>>], scriptSig |-> sig,
                   nSequence |-> sq] >>,
       !.vout = << [nValue |-> <<160, 134, 1>>,
                    scriptPubKey |-> [i \in 1..k |-> IF i = 2 THEN 20 ELSE 0]] >>] :
      v \in {1, 2}, sig \in {<<>>, <<81>>},
      sq \in {<<255, 255, 255, 255>>, <<>>}, k \in 0..MaxScriptLen }

SizeInit ==
  /\ pc = "start"
  /\ tx \in SizeTransactions
  /\ tx2 = CTransaction
  /\ shared = <<>>
  /\ buf = <<>>
  /\ out = <<>>
  /\ ret = NoRet
  /\ err = FALSE
  /\ frame = <<>>
  /\ tailable = NoneObject
  /\ psbt = NoneObject
  /\ psbt2 = NoneObject

\* out = tx.serialize_without_witness()
SizeSerialize ==
  /\ pc = "start"
  /\ out' = serialize_without_witness(tx)
  /\ pc' = "serialized"
  /\ UNCHANGED <<tx, tx2, shared, buf, ret, err, psbt, psbt2, frame, tailable>>

SizeNext == SizeSerialize

SpecSize == SizeInit /\ [][SizeNext]_vars

\* the transaction of the scenario: version 2, all-zero prevout hash, index
\* 0, empty scriptSig, sequence 0xFFFFFFFF, 100000 satoshis to a 22-byte
\* script, locktime 0, no witness
IsScenarioTx(t) ==
  /\ t.nVersion = <<2>>
  /\ Len(t.vin) = 1
  /\ t.vin[1].prevout = [hash |-> <<>>, n |-> <<>>]
  /\ t.vin[1].scriptSig = <<>>
  /\ t.vin[1].nSequence = <<255, 255, 255, 255>>
  /\ Len(t.vout) = 1
  /\ t.vout[1].nValue = NumOf(100000)
  /\ Len(t.vout[1].scriptPubKey) = 22
  /\ t.nLockTime = <<>>
  /\ t.wit = <<>>

\* C22 (as claimed): the scenario transaction serializes without witness to
\* exactly 51 bytes.
C22_Is51Bytes ==
  (pc = "serialized" /\ IsScenarioTx(tx)) => Len(out) = 51

\* C22 (amended): the scenario transaction serializes without witness to
\* exactly 82 bytes: 4 of version, 1 of input count, 41 of input (32 + 4 of
\* outpoint, 1 of empty script, 4 of sequence), 1 of output count, 31 of
\* output (8 of value, 1 + 22 of script) and 4 of locktime.
C22_Is82Bytes ==
  (pc = "serialized" /\ IsScenarioTx(tx))
    => /\ Len(out) = 82
       /\ SubSeq(out, 1, 5) = <<2, 0, 0, 0, 1>>
       /\ SubSeq(out, 6, 41) = Zeros(36)
       /\ SubSeq(out, 42, 47) = <<0, 255, 255, 255, 255, 1>>
       /\ SubSeq(out, 48, 56) = <<160, 134, 1, 0, 0, 0, 0, 0, 22>>
       /\ SubSeq(out, 57, 78) = tx.vout[1].scriptPubKey
       /\ SubSeq(out, 79, 82) = Zeros(4)

\* C22's case: the scenario transaction was serialized.
C22_Witness ==
  /\ pc = "serialized"
  /\ IsScenarioTx(tx)
  /\ Len(out) > 51

\* ------------------------------------------ SpecHash: the cached hashes
\* A caller holding a transaction changes its fields, asks for its hashes
\* with calc_sha256(), is_valid(), rehash() and txid(), and decodes other
\* bytes into it, in any order.

\* self.is_valid(): the value returned and the object after the call.  The
\* hashes are computed first; the loop then returns False at the first
\* negative nValue (eight bytes, top bit set) and raises NameError at the
\* first other one, COIN being undefined in the module; ok = FALSE when it
\* raises.
is_valid(self) ==
  [ok |-> Len(self.vout) = 0
            \/ (Len(self.vout[1].nValue) = 8 /\ self.vout[1].nValue[8] >= 128),
   ret |-> Len(self.vout) = 0,
   tx |-> calc_sha256(self)]

\* the transactions the caller starts from
HashTransactions ==
  { [CTransaction EXCEPT !.nVersion = <<2>>, !.vin = vin, !.vout = <<o>>] :
      vin \in [1..1 -> TxInChoices], o \in TxOutChoices }

\* the bytes the caller decodes into the transaction
HashBuffers == { serialize_without_witness(t) : t \in HashTransactions }

HashInit ==
  /\ pc = "start"
  /\ tx \in HashTransactions
  /\ tx2 = CTransaction
  /\ shared = <<>>
  /\ buf = <<>>
  /\ out = <<>>
  /\ ret = NoRet
  /\ err = FALSE
  /\ frame = <<>>
  /\ tailable = NoneObject
  /\ psbt = NoneObject
  /\ psbt2 = NoneObject

\* tx.vout[0] = o, or tx.nLockTime = lt
HashMutate ==
  /\ \/ \E o \in OutputEdits : tx' = [tx EXCEPT !.vout[1] = o]
     \/ \E lt \in {<<>>, <<144, 1>>} : tx' = [tx EXCEPT !.nLockTime = lt]
  /\ pc' = "mutate"
  /\ ret' = NoRet
  /\ err' = FALSE
  /\ UNCHANGED <<tx2, shared, buf, out, psbt, psbt2, frame, tailable>>

\* tx.calc_sha256()
HashCalcSha256 ==
  /\ tx' = calc_sha256(tx)
  /\ pc' = "calc_sha256"
  /\ ret' = NoRet
  /\ err' = FALSE
  /\ UNCHANGED <<tx2, shared, buf, out, psbt, psbt2, frame, tailable>>

\* ret = tx.is_valid()
HashIsValid ==
  /\ \E r \in {is_valid(tx)} :
       /\ tx' = r.tx
       /\ ret' = Ret("is_valid", <<>>, r.ret)
       /\ err' = ~r.ok
  /\ pc' = "is_valid"
  /\ UNCHANGED <<tx2, shared, buf, out, psbt, psbt2, frame, tailable>>

\* tx.rehash()
HashRehash ==
  /\ tx' = rehash(tx)
  /\ pc' = "rehash"
  /\ ret' = NoRet
  /\ err' = FALSE
  /\ UNCHANGED <<tx2, shared, buf, out, psbt, psbt2, frame, tailable>>

\* ret = tx.txid()
HashTxid ==
  /\ \E r \in {txid(tx)} :
       /\ tx' = r.tx
       /\ ret' = Ret("txid", <<>>, r.ret)
  /\ pc' = "txid"
  /\ err' = FALSE
  /\ UNCHANGED <<tx2, shared, buf, out, psbt, psbt2, frame, tailable>>

\* tx.deserialize(BytesIO(b))
HashDeserialize ==
  /\ \E b \in HashBuffers :
       \E r \in {CTransaction_deserialize(tx, BytesIO(b), shared)} :
         /\ r.ok
         /\ tx' = r.tx
         /\ shared' = r.D
  /\ pc' = "deserialize"
  /\ ret' = NoRet
  /\ err' = FALSE
  /\ UNCHANGED <<tx2, buf, out, psbt, psbt2, frame, tailable>>

HashNext ==
  \/ HashMutate
  \/ HashCalcSha256
  \/ HashIsValid
  \/ HashRehash
  \/ HashTxid
  \/ HashDeserialize

SpecHash == HashInit /\ [][HashNext]_vars

\* C23 (as claimed): whenever the hex `hash` field of a transaction is set,
\* it is the hex form of what txid() returns, the digest cached in `sha256`.
C23_HashMatchesSha256 ==
  tx.hash # None => tx.hash = HexOf(txid(tx).ret)

\* ------------------------------- SpecEdit: psbt.tx edited after decoding
\* A test decodes a PSBT, then changes psbt.tx (an output, the witness
\* list, a rehash), computes sighashes from it, and encodes the PSBT, in any
\* order; the maps are left alone.

\* psbt = PSBT.from_base64(buf)
EditInit ==
  /\ pc = "from_base64"
  /\ \E n \in 1..MaxIn, m \in 1..MaxOut :
       /\ buf = b64encode(Wire(SamplePsbt(n, m)))
       /\ psbt = from_base64(buf, <<>>).v
  /\ psbt2 = NoneObject
  /\ tx = CTransaction
  /\ tx2 = CTransaction
  /\ shared = <<>>
  /\ out = <<>>
  /\ ret = NoRet
  /\ err = FALSE
  /\ frame = <<>>
  /\ tailable = NoneObject

\* psbt.tx.vout[0] = o
EditSetOutput ==
  /\ \E o \in OutputEdits : psbt' = [psbt EXCEPT !.tx.vout[1] = o]
  /\ pc' = "set_output"
  /\ err' = FALSE
  /\ out' = <<>>
  /\ ret' = NoRet
  /\ UNCHANGED <<tx, tx2, shared, buf, psbt2, frame, tailable>>

\* psbt.tx.wit.vtxinwit.append(CTxInWitness(CScriptWitness([b"\x07"])))
EditAddWitness ==
  /\ Len(psbt.tx.wit) < Len(psbt.tx.vin)
  /\ psbt' = [psbt EXCEPT !.tx.wit = Append(@, CTxInWitness(<< <<7>> >>))]
  /\ pc' = "add_witness"
  /\ err' = FALSE
  /\ out' = <<>>
  /\ ret' = NoRet
  /\ UNCHANGED <<tx, tx2, shared, buf, psbt2, frame, tailable>>

\* psbt.tx.rehash()
EditRehash ==
  /\ psbt' = [psbt EXCEPT !.tx = rehash(@)]
  /\ pc' = "rehash"
  /\ err' = FALSE
  /\ out' = <<>>
  /\ ret' = NoRet
  /\ UNCHANGED <<tx, tx2, shared, buf, psbt2, frame, tailable>>

\* ret = sighash_all_witness(script_code, psbt, 0)
EditSighash ==
  /\ \E c \in {sighash_all_witness_call(<<81>>, psbt, 0, FALSE)} :
       /\ ret' = Ret("sighash_all_witness", <<>>, c.r.v)
       /\ err' = ~c.r.ok
       /\ psbt' = c.psbt
  /\ pc' = "sighash"
  /\ out' = <<>>
  /\ UNCHANGED <<tx, tx2, shared, buf, psbt2, frame, tailable>>

\* out = psbt.to_base64()
EditToBase64 ==
  /\ \E r \in {to_base64(psbt, shared)} :
       /\ out' = r.r
       /\ shared' = r.D
       /\ err' = ~r.ok
  /\ pc' = "to_base64"
  /\ ret' = NoRet
  /\ UNCHANGED <<tx, tx2, buf, psbt, psbt2, frame, tailable>>

EditNext ==
  \/ EditSetOutput
  \/ EditAddWitness
  \/ EditRehash
  \/ EditSighash
  \/ EditToBase64

SpecEdit == EditInit /\ [][EditNext]_vars

\* C24: whatever was done to psbt.tx after decoding (outputs, witness list,
\* rehash), to_base64() returns the text the PSBT was decoded from, and the
\* bytes it encodes carry, right after the magic, key 0 with the byte string
\* stored under global key 0; sighash_all_witness meanwhile follows psbt.tx.
C24_SerializeIgnoresTx ==
  /\ pc = "to_base64"
       => /\ ~err
          /\ out = buf
          /\ \E g0 \in {ser_string(Get(psbt.g, 0).b)} :
               SubSeq(b64decode(out).v, 1, 7 + Len(g0)) = Magic \o <<1, 0>> \o g0
  /\ (pc = "sighash" /\ ~err)
       => ret.v = sighash_all_witness(<<81>>, psbt, 0, FALSE).v

\* C24's case: the PSBT was encoded after its transaction got another first
\* output, a witness and a new hash, so that psbt.tx no longer is the
\* transaction stored under global key 0.
C24_Witness ==
  /\ pc = "to_base64"
  /\ psbt.tx.vout[1] \in OutputEdits
  /\ psbt.tx.wit # <<>>
  /\ psbt.tx.sha256 # None
  /\ serialize_without_witness(psbt.tx) # Get(psbt.g, 0).b
  /\ out = buf

\* --------------------------- SpecBlankAny: make_blank on any PSBT object
\* The caller blanks a PSBT that was decoded, or one it built with
\* PSBT(g=..., i=..., o=...) whose global map has no key 0.

\* the dict m without key k
Without(m, k) == SelectSeq(m, LAMBDA e : e[1] # k)

BlankAnyInit ==
  /\ pc = "start"
  /\ psbt \in PsbtObjects
                \cup { [p EXCEPT !.g = Without(p.g, PSBT_GLOBAL_UNSIGNED_TX)] :
                         p \in PsbtObjects }
  /\ psbt2 = NoneObject
  /\ tx = CTransaction
  /\ tx2 = CTransaction
  /\ shared = <<>>
  /\ buf = <<>>
  /\ out = <<>>
  /\ ret = NoRet
  /\ err = FALSE
  /\ frame = <<>>
  /\ tailable = NoneObject

SpecBlankAny == BlankAnyInit /\ [][BlankNext]_vars

\* C25 (as claimed): when make_blank raises, the PSBT is as it was before the
\* call: no input or output map has been cleared and the global map is the
\* same.
C25_MakeBlankAtomic ==
  (pc = "blank" /\ err) => psbt = ret.arg

\* ------------------------- SpecReuse: decoding into a used CTransaction
\* The caller has a transaction it populated, and decodes a buffer into that
\* same object.

\* the buffers decoded: a transaction without witness, one with a witness,
\* and the empty transaction (no input, flag byte 0)
ReuseBuffers ==
  { serialize_without_witness(t) : t \in HashTransactions }
    \cup { serialize_with_witness(
             [t EXCEPT !.wit = << CTxInWitness(<< <<7>> >>) >>], <<>>).r :
             t \in HashTransactions }
    \cup { <<2, 0, 0, 0, 0, 0, 0, 0, 0, 0>> }

ReuseInit ==
  /\ pc = "start"
  /\ tx \in Transactions
  /\ buf \in ReuseBuffers
  /\ tx2 = CTransaction
  /\ shared = <<>>
  /\ out = <<>>
  /\ ret = NoRet
  /\ err = FALSE
  /\ frame = <<>>
  /\ tailable = NoneObject
  /\ psbt = NoneObject
  /\ psbt2 = NoneObject

\* tx.deserialize(BytesIO(buf))
ReuseDeserialize ==
  /\ pc = "start"
  /\ \E r \in {CTransaction_deserialize(tx, BytesIO(buf), shared)} :
       /\ tx' = r.tx
       /\ shared' = r.D
       /\ err' = ~r.ok
  /\ pc' = "deserialized"
  /\ UNCHANGED <<tx2, buf, out, ret, psbt, psbt2, frame, tailable>>

ReuseNext == ReuseDeserialize

SpecReuse == ReuseInit /\ [][ReuseNext]_vars

\* C26 (as claimed): after deserialize() on a transaction that was populated
\* before, its version, inputs, outputs, witness stacks and locktime are
\* those a fresh CTransaction gets from the same buffer, and its hash caches
\* are empty.
C26_DeserializeOverwrites ==
  (pc = "deserialized" /\ ~err)
    => /\ \E r \in {CTransaction_deserialize(CTransaction, BytesIO(buf), shared)} :
            ContentsOf(tx, shared) = ContentsOf(r.tx, r.D)
       /\ tx.sha256 = None
       /\ tx.hash = None

\* ------------------------ SpecOrder: two maps filled in their own order
\* Two PSBTMap objects are filled entry by entry, each in the order its
\* caller chooses, and serialized.

\* the key types assigned a bytes value
OrderScalarKeys == {PSBT_IN_WITNESS_UTXO, PSBT_IN_WITNESS_SCRIPT}

\* the public keys a partial signature is added for
OrderPubKeys == {PubKey(1), PubKey(2)}

\* the signature made with public key pk
SigOf(pk) == <<48, pk[2]>>

\* m.map[key_type] = value
PSBTMap_set(m, key_type, value) == [m EXCEPT !.map = Put(m.map, key_type, value)]

\* m.map.setdefault(PSBT_IN_PARTIAL_SIG, {})[pk] = sig
PSBTMap_add_sig(m, pk, sig) ==
  [m EXCEPT !.map =
     IF Has(m.map, PSBT_IN_PARTIAL_SIG)
     THEN Put(m.map, PSBT_IN_PARTIAL_SIG,
              SubMap(Put(Get(m.map, PSBT_IN_PARTIAL_SIG).d, pk, sig)))
     ELSE Put(m.map, PSBT_IN_PARTIAL_SIG, SubMap(<< <<pk, sig>> >>))]

OrderInit ==
  /\ pc = "fill"
  /\ psbt = [map |-> <<>>]
  /\ psbt2 = [map |-> <<>>]
  /\ tx = CTransaction
  /\ tx2 = CTransaction
  /\ shared = <<>>
  /\ buf = <<>>
  /\ out = <<>>
  /\ ret = NoRet
  /\ err = FALSE
  /\ frame = <<>>
  /\ tailable = NoneObject

\* psbt.map[k] = v on the first map
OrderSetFirst ==
  /\ pc = "fill"
  /\ \E k \in OrderScalarKeys :
       /\ ~Has(psbt.map, k)
       /\ psbt' = PSBTMap_set(psbt, k, Scalar(<<81, k>>))
  /\ UNCHANGED <<pc, tx, tx2, shared, buf, out, ret, err, psbt2, frame, tailable>>

\* the same assignment on the second map
OrderSetSecond ==
  /\ pc = "fill"
  /\ \E k \in OrderScalarKeys :
       /\ ~Has(psbt2.map, k)
       /\ psbt2' = PSBTMap_set(psbt2, k, Scalar(<<81, k>>))
  /\ UNCHANGED <<pc, tx, tx2, shared, buf, out, ret, err, psbt, frame, tailable>>

\* a partial signature added to the first map
OrderAddSigFirst ==
  /\ pc = "fill"
  /\ \E pk \in OrderPubKeys :
       /\ Has(psbt.map, PSBT_IN_PARTIAL_SIG)
            => ~Has(Get(psbt.map, PSBT_IN_PARTIAL_SIG).d, pk)
       /\ psbt' = PSBTMap_add_sig(psbt, pk, SigOf(pk))
  /\ UNCHANGED <<pc, tx, tx2, shared, buf, out, ret, err, psbt2, frame, tailable>>

\* a partial signature added to the second map
OrderAddSigSecond ==
  /\ pc = "fill"
  /\ \E pk \in OrderPubKeys :
       /\ Has(psbt2.map, PSBT_IN_PARTIAL_SIG)
            => ~Has(Get(psbt2.map, PSBT_IN_PARTIAL_SIG).d, pk)
       /\ psbt2' = PSBTMap_add_sig(psbt2, pk, SigOf(pk))
  /\ UNCHANGED <<pc, tx, tx2, shared, buf, out, ret, err, psbt, frame, tailable>>

\* out = psbt.serialize(), buf = psbt2.serialize()
OrderSerialize ==
  /\ pc = "fill"
  /\ pc' = "serialized"
  /\ out' = PSBTMap_serialize(psbt.map).r
  /\ buf' = PSBTMap_serialize(psbt2.map).r
  /\ UNCHANGED <<tx, tx2, shared, ret, err, psbt, psbt2, frame, tailable>>

OrderNext ==
  \/ OrderSetFirst
  \/ OrderSetSecond
  \/ OrderAddSigFirst
  \/ OrderAddSigSecond
  \/ OrderSerialize

SpecOrder == OrderInit /\ [][OrderNext]_vars

\* the contents of a map: its (key type, key data, value) triples
TriplesOf(m) ==
  UNION { IF m[j][2].kind = "dict"
          THEN { <<m[j][1], m[j][2].d[k][1], m[j][2].d[k][2]>> :
                   k \in 1..Len(m[j][2].d) }
          ELSE { <<m[j][1], <<>>, m[j][2].b>> } : j \in 1..Len(m) }

\* C27 (as claimed): two maps holding the same key types, key data and
\* values serialize to the same bytes, whatever the order the entries were
\* inserted in, the order inside the per-key-data dict included.
C27_OrderIndependent ==
  (pc = "serialized" /\ TriplesOf(psbt.map) = TriplesOf(psbt2.map))
    => out = buf

\* ------------------------------ SpecRound: decode, then encode again
\* A PSBT arrives as bytes, is decoded and is serialized again.

\* the writer's encoding of p with every map written in insertion order
WireUnsorted(p) ==
  Magic \o Concat([j \in 1..(1 + Len(p.i) + Len(p.o)) |->
             PSBTMap_serialize_unsorted((<<p.g>> \o p.i \o p.o)[j]).r])

\* the encoding of p with the length of the key of its unsigned transaction
\* written as the three-byte VarInt FD 01 00
WireLongVarInt(p) ==
  Magic \o <<253, 1, 0, PSBT_GLOBAL_UNSIGNED_TX>>
        \o ser_string(Get(p.g, PSBT_GLOBAL_UNSIGNED_TX).b) \o <<0>>
        \o Concat([j \in 1..(Len(p.i) + Len(p.o)) |->
             PSBTMap_serialize((p.i \o p.o)[j]).r])

RoundBuffers ==
  {Wire(p) : p \in PsbtObjects}
    \cup {WireUnsorted(p) : p \in PsbtObjects}
    \cup {WireLongVarInt(p) : p \in DecPsbts}

RoundInit ==
  /\ pc = "start"
  /\ buf \in RoundBuffers
  /\ tx = CTransaction
  /\ tx2 = CTransaction
  /\ shared = <<>>
  /\ out = <<>>
  /\ ret = NoRet
  /\ err = FALSE
  /\ frame = <<>>
  /\ tailable = NoneObject
  /\ psbt = NoneObject
  /\ psbt2 = NoneObject

\* psbt = PSBT.from_base64(s) for the base64 text s of the buffer
RoundFromBase64 ==
  /\ pc = "start"
  /\ \E r \in {from_base64(b64encode(buf), shared)} :
       /\ psbt' = IF r.ok THEN r.v ELSE NoneObject
       /\ shared' = r.D
       /\ err' = ~r.ok
  /\ pc' = "from_base64"
  /\ UNCHANGED <<tx, tx2, buf, out, ret, psbt2, frame, tailable>>

\* psbt = PSBT(); psbt.deserialize(f) on a stream f holding the buffer; the
\* behaviour goes on only if f is read to its end
RoundDeserialize ==
  /\ pc = "start"
  /\ \E r \in {PSBT_deserialize(PSBT, BytesIO(buf), shared)} :
       /\ psbt' = IF r.ok THEN r.v ELSE NoneObject
       /\ shared' = r.D
       /\ err' = ~(r.ok /\ r.f.pos = Len(buf))
  /\ pc' = "deserialized"
  /\ UNCHANGED <<tx, tx2, buf, out, ret, psbt2, frame, tailable>>

\* out = psbt.serialize()
RoundSerialize ==
  /\ pc \in {"from_base64", "deserialized"}
  /\ ~err
  /\ \E r \in {PSBT_serialize(psbt, shared)} :
       /\ out' = r.r
       /\ shared' = r.D
       /\ err' = ~r.ok
  /\ pc' = "serialized"
  /\ UNCHANGED <<tx, tx2, buf, ret, psbt, psbt2, frame, tailable>>

RoundNext ==
  \/ RoundFromBase64
  \/ RoundDeserialize
  \/ RoundSerialize

SpecRound == RoundInit /\ [][RoundNext]_vars

\* C28 (as claimed): when a buffer is accepted and fully consumed by
\* from_base64 or deserialize, serialize() of the decoded PSBT returns exactly
\* that buffer, also when it lists key types out of ascending order or
\* writes a length as a non-minimal VarInt.
C28_RoundTrip ==
  (pc = "serialized" /\ ~err) => out = buf

\* ------------------- SpecTail: a TailableProc, its tail thread, its waiter
\* The test starts a process with TailableProc.start() and then waits for
\* log lines with wait_for_logs(); the tail thread started by start() copies
\* the lines the process writes into self.logs.  buf holds the lines the
\* process has still to write, out the lines returned by wait_for_logs.

\* the lines a process writes before it exits
MaxLines == 2

\* the wait_for_logs calls made by the test
MaxCalls == 2

\* the patterns waited for
Regexes == {"a", "b"}

\* a log line, held as the set of patterns that occur in it
Lines == SUBSET Regexes

\* r.search(line)
search(r, line) == r \in line

\* the regexs arguments: the lists of distinct patterns
RegexLists ==
  { l \in SeqsUpTo(Regexes, Cardinality(Regexes)) :
      /\ Len(l) > 0
      /\ \A j, k \in 1..Len(l) : j # k => l[j] # l[k] }

\* TailableProc.__init__
TailableProc ==
  [logs |-> <<>>, running |-> FALSE, logsearch_start |-> 0, proc |-> NoneObject]

\* subprocess.Popen(...): a live process, nothing written to its stdout yet
Popen == [stdout |-> <<>>, returncode |-> None]

TailInit ==
  /\ pc = [main |-> "Popen", tail |-> "unstarted"]
  /\ tailable = TailableProc
  /\ buf \in SeqsUpTo(Lines, MaxLines)
  /\ tx = CTransaction
  /\ tx2 = CTransaction
  /\ shared = <<>>
  /\ out = <<>>
  /\ ret = NoRet
  /\ err = FALSE
  /\ frame = <<>>
  /\ psbt = NoneObject
  /\ psbt2 = NoneObject

\* start(): self.proc = subprocess.Popen(...)
TailPopen ==
  /\ pc.main = "Popen"
  /\ tailable' = [tailable EXCEPT !.proc = Popen]
  /\ pc' = [pc EXCEPT !.main = "thread.start"]
  /\ UNCHANGED <<tx, tx2, shared, buf, out, ret, err, psbt, psbt2, frame>>

\* start(): self.thread.start()
TailThreadStart ==
  /\ pc.main = "thread.start"
  /\ pc' = [main |-> "running", tail |-> "readline"]
  /\ UNCHANGED <<tx, tx2, shared, buf, out, ret, err, psbt, psbt2, frame, tailable>>

\* start(): self.running = True
TailRunning ==
  /\ pc.main = "running"
  /\ tailable' = [tailable EXCEPT !.running = TRUE]
  /\ pc' = [pc EXCEPT !.main = "started"]
  /\ UNCHANGED <<tx, tx2, shared, buf, out, ret, err, psbt, psbt2, frame>>

\* the process writes its next line to stdout
ProcWrite ==
  /\ tailable.proc # NoneObject
  /\ tailable.proc.returncode = None
  /\ buf # <<>>
  /\ tailable' = [tailable EXCEPT !.proc.stdout = Append(@, Head(buf))]
  /\ buf' = Tail(buf)
  /\ UNCHANGED <<pc, tx, tx2, shared, out, ret, err, psbt, psbt2, frame>>

\* the process exits
ProcExit ==
  /\ tailable.proc # NoneObject
  /\ tailable.proc.returncode = None
  /\ buf = <<>>
  /\ tailable' = [tailable EXCEPT !.proc.returncode = <<>>]
  /\ UNCHANGED <<pc, tx, tx2, shared, buf, out, ret, err, psbt, psbt2, frame>>

\* tail(): readline returns a line; with self.logs_cond: self.logs.append
TailLine ==
  /\ pc.tail = "readline"
  /\ tailable.proc.stdout # <<>>
  /\ tailable' = [tailable EXCEPT !.logs = Append(@, Head(tailable.proc.stdout)),
                                  !.proc.stdout = Tail(@)]
  /\ UNCHANGED <<pc, tx, tx2, shared, buf, out, ret, err, psbt, psbt2, frame>>

\* tail(): readline returns "" at end of file; self.running = False
TailEof ==
  /\ pc.tail = "readline"
  /\ tailable.proc.stdout = <<>>
  /\ tailable.proc.returncode # None
  /\ tailable' = [tailable EXCEPT !.running = FALSE]
  /\ pc' = [pc EXCEPT !.tail = "done"]
  /\ UNCHANGED <<tx, tx2, shared, buf, out, ret, err, psbt, psbt2, frame>>

\* wait_for_logs(regexs, timeout) up to its loop: exs, pos
WaitCall ==
  /\ pc.main \in {"started", "returned"}
  /\ Len(out) < MaxCalls
  /\ \E regexs \in RegexLists, timeout \in {None, <<20>>} :
       /\ frame' = [exs |-> regexs, pos |-> tailable.logsearch_start,
                    timeout |-> timeout]
       /\ ret' = Ret("wait_for_logs",
                     [regexs |-> regexs, start |-> tailable.logsearch_start],
                     <<>>)
  /\ pc' = [pc EXCEPT !.main = "loop"]
  /\ UNCHANGED <<tx, tx2, shared, buf, out, err, psbt, psbt2, tailable>>

\* timeout is not None and time.time() > start_time + timeout: TimeoutError
WaitTimeout ==
  /\ pc.main \in {"loop", "wait"}
  /\ frame.timeout # None
  /\ pc' = [pc EXCEPT !.main = "TimeoutError"]
  /\ err' = TRUE
  /\ UNCHANGED <<tx, tx2, shared, buf, out, ret, psbt, psbt2, frame, tailable>>

\* pos >= len(self.logs) and not self.running: ValueError
WaitDied ==
  /\ pc.main = "loop"
  /\ frame.pos >= Len(tailable.logs)
  /\ ~tailable.running
  /\ pc' = [pc EXCEPT !.main = "ValueError"]
  /\ err' = TRUE
  /\ UNCHANGED <<tx, tx2, shared, buf, out, ret, psbt, psbt2, frame, tailable>>

\* pos >= len(self.logs) and self.running: self.logs_cond.wait(1)
WaitSleep ==
  /\ pc.main = "loop"
  /\ frame.pos >= Len(tailable.logs)
  /\ tailable.running
  /\ pc' = [pc EXCEPT !.main = "wait"]
  /\ UNCHANGED <<tx, tx2, shared, buf, out, ret, err, psbt, psbt2, frame, tailable>>

\* wait(1) returns, notified or a second later; continue
WaitWake ==
  /\ pc.main = "wait"
  /\ pc' = [pc EXCEPT !.main = "loop"]
  /\ UNCHANGED <<tx, tx2, shared, buf, out, ret, err, psbt, psbt2, frame, tailable>>

\* the for loop over exs.copy() on self.logs[pos]: the first pattern found
\* in the line is removed and the loop is left
remove_first_found(exs, line) ==
  IF \E j \in 1..Len(exs) : search(exs[j], line)
  THEN With(CHOOSE j \in 1..Len(exs) :
              /\ search(exs[j], line)
              /\ \A k \in 1..(j - 1) : ~search(exs[k], line),
            LAMBDA j : SubSeq(exs, 1, j - 1) \o SubSeq(exs, j + 1, Len(exs)))
  ELSE exs

\* pos < len(self.logs): logsearch_start = pos + 1, a pattern found is
\* removed, return self.logs[pos] when none is left, else pos += 1
WaitExamine ==
  /\ pc.main = "loop"
  /\ frame.pos < Len(tailable.logs)
  /\ \E exs \in {remove_first_found(frame.exs, tailable.logs[frame.pos + 1])} :
       /\ tailable' = [tailable EXCEPT !.logsearch_start = frame.pos + 1]
       /\ IF Len(exs) = 0
          THEN /\ pc' = [pc EXCEPT !.main = "returned"]
               /\ out' = Append(out, tailable.logs[frame.pos + 1])
               /\ frame' = [frame EXCEPT !.exs = exs]
          ELSE /\ frame' = [frame EXCEPT !.exs = exs, !.pos = @ + 1]
               /\ UNCHANGED <<pc, out>>
  /\ UNCHANGED <<tx, tx2, shared, buf, ret, err, psbt, psbt2>>

MainNext ==
  \/ TailPopen
  \/ TailThreadStart
  \/ TailRunning
  \/ WaitCall
  \/ WaitTimeout
  \/ WaitDied
  \/ WaitSleep
  \/ WaitWake
  \/ WaitExamine

ThreadNext ==
  \/ TailLine
  \/ TailEof

ProcNext ==
  \/ ProcWrite
  \/ ProcExit

TailNext ==
  \/ MainNext
  \/ ThreadNext
  \/ ProcNext

SpecTail == TailInit /\ [][TailNext]_vars

\* the scheduler runs every thread that can take a step, the process makes
\* progress, and the clock passes every deadline
SpecTailFair ==
  /\ SpecTail
  /\ WF_vars(MainNext)
  /\ WF_vars(ThreadNext)
  /\ WF_vars(ProcNext)
  /\ WF_vars(WaitTimeout)

\* the process has exited, the tail thread is done, and the waiter has
\* examined every logged line with a pattern still to find
DiedBeforeFound ==
  /\ pc.tail = "done"
  /\ pc.main \in {"loop", "wait"}
  /\ frame.pos >= Len(tailable.logs)
  /\ Len(frame.exs) > 0

\* C29 (as claimed): under every interleaving, once the process has exited,
\* the tail thread is done and every logged line was examined without all
\* patterns found, wait_for_logs raises ValueError or TimeoutError, with a
\* timeout of None as well.
C29_DiedThenRaises ==
  DiedBeforeFound ~> (pc.main \in {"ValueError", "TimeoutError"})

\* C30 (as claimed): while wait_for_logs runs, the patterns it still waits
\* for are those found in none of the lines from the position where the
\* previous wait stopped up to the line last examined, so that a line in
\* which several patterns occur counts for all of them.
C30_LineCountsForAll ==
  (pc.main \in {"loop", "wait", "returned"} /\ ret.op = "wait_for_logs")
    => { frame.exs[j] : j \in 1..Len(frame.exs) }
         = { r \in { ret.arg.regexs[j] : j \in 1..Len(ret.arg.regexs) } :
               \A k \in (ret.arg.start + 1)..tailable.logsearch_start :
                 ~search(r, tailable.logs[k]) }

====
